---- MODULE Spec2Model ----
(***************************************************************************)
(* Model of the scoring service in src/python-service.                    *)
(*                                                                         *)
(* NoShowRiskAnalyzer (no_show_risk_analyzer.py) is modelled at the level  *)
(* of the rows its database cursor returns: the interview, candidate and   *)
(* application rows, the outcome of the negotiation lookup and the outcome *)
(* of the history lookup.                                                  *)
(*                                                                         *)
(* Numbers.  Python floats are modelled as exact rationals <<n, d>> in     *)
(* lowest terms.  The one place where the binary representation decides    *)
(* the outcome is a comparison or a rounding of a computed value that sits *)
(* exactly on a threshold or on a rounding tie: there the sign of the      *)
(* accumulated representation error (err \in ErrSigns) decides, and every  *)
(* sign is explored.                                                       *)
(*                                                                         *)
(* Time stamps are whole minutes.  An optional value (None in Python) is   *)
(* Null == <<>>, a present value v is Some(v) == <<v>>.  A string field is *)
(* modelled by its length, which is all the code inspects.                 *)
(***************************************************************************)
EXTENDS Integers, Sequences, FiniteSets, TLC

VARIABLES
    pc,           \* "idle": no call in progress; "returned" / "raised": a call has ended
    fn,           \* the method the last call entered
    interview,    \* interview row read by the call
    negotiation,  \* outcome of the negotiation_sessions lookup
    candidate,    \* users row read by the call
    application,  \* applications row read by the call
    history,      \* outcome of the past-interviews lookup
    risk_score,   \* argument of _categorize_risk
    risk,         \* value returned by a risk calculator
    level,        \* value returned by _categorize_risk
    locals,       \* analyze_risk: the four sub-risks and total_risk
    result,       \* analyze_risk: the returned dictionary
    raised,       \* analyze_risk: the exception it raised, "" if none
    weights,      \* NoShowRiskAnalyzer.weights, set by __init__
    first,        \* the analysis that preceded the current one (pair runs)
    interviews,       \* the interviews table of the store
    interview_id,     \* analyze_risk: its first argument
    candidate_id,     \* analyze_risk: its second argument
    past_interviews,  \* ids of the rows the history query selected
    ranker_weights,   \* EnhancedResumeRanker.weights, set by __init__
    vectorizer,       \* EnhancedResumeRanker.vectorizer: what it was last fitted on
    resume_text,      \* the resume text a ranker call works on
    job_description,  \* the job description a ranker call works on
    features,         \* the features record extracted or passed in
    scores,           \* _compute_fit_score: its five sub-scores
    fit_score,        \* value returned by _compute_fit_score
    max_length,       \* generate_summary: its max_length argument
    sentences,        \* generate_summary: the sentences of the cleaned text
    summary,          \* value returned by generate_summary
    response,         \* value returned by process_application
    requests,         \* the concurrent invocations on the shared ranker
    vectorizer_before, \* the vectorizer as the last ranker call found it
    events,           \* analyze_risk: what the call did on its connection, in order
    request_body,     \* the JSON body of a request to the analyze-risk endpoint
    http_response,    \* what the analyze-risk endpoint answered
    tokenizing,       \* generate_summary: whether a step of its try block raised
    scoring,          \* generate_summary: how _score_sentences got its scores
    ranked_indices,   \* _select_top_sentences: the sentence indices, best score first
    selected_sentences \* value returned by _select_top_sentences

\* the analyzer's variables, the store's and the ranker's
avars == <<pc, fn, interview, negotiation, candidate, application, history,
           risk_score, risk, level, locals, result, raised, weights, first>>
svars == <<interviews, interview_id, candidate_id, past_interviews>>
rvars == <<ranker_weights, vectorizer, resume_text, job_description, features,
           scores, fit_score, max_length, sentences, summary, response, requests,
           vectorizer_before>>

\* the endpoint's variables and those of the sentence selection
hvars == <<request_body, http_response>>
gvars == <<tokenizing, scoring, ranked_indices, selected_sentences>>

vars == <<avars, svars, rvars, events, hvars, gvars>>

----------------------------------------------------------------------------
(* Bounds of the model *)

MaxHist == 5            \* longest list of past interviews given to the calculator
MaxPast == 2            \* longest list of past interviews in a whole analysis
MaxRound == 3           \* largest negotiation round in a session row
MaxElapsedHours == 60   \* largest updated_at - created_at, in hours
ScoreGrid == 100        \* scores k/ScoreGrid are fed to _categorize_risk
MaxInterviews == 3      \* most rows of the interviews table
MaxYears == 12          \* most years a resume text mentions
MaxKeywords == 21       \* most occurrences of project keywords in a resume text
MaxSkills == 11         \* most skill keywords a resume text contains
MaxEducation == 6       \* largest education_score of a features record passed in
SimGrid == 4            \* cosine similarities are k/SimGrid
MaxJobs == 2            \* job descriptions
MaxSentences == 3       \* most sentences of a cleaned resume text

----------------------------------------------------------------------------
(* Optional values *)

Null == <<>>
Some(v) == <<v>>

----------------------------------------------------------------------------
(* Exact rational arithmetic standing for Python float arithmetic *)

Abs(n) == IF n < 0 THEN -n ELSE n

RECURSIVE GCD(_, _)
GCD(a, b) == IF b = 0 THEN a ELSE GCD(b, a % b)

Rat(n, d) == LET g == GCD(Abs(n), d) IN <<n \div g, d \div g>>

RAdd(x, y) == Rat(x[1] * y[2] + y[1] * x[2], x[2] * y[2])
RSub(x, y) == Rat(x[1] * y[2] - y[1] * x[2], x[2] * y[2])
RMul(x, y) == Rat(x[1] * y[1], x[2] * y[2])
RLt(x, y) == x[1] * y[2] < y[1] * x[2]
RLe(x, y) == x[1] * y[2] <= y[1] * x[2]
RMin(x, y) == IF RLt(y, x) THEN y ELSE x

Zero == Rat(0, 1)
One == Rat(1, 1)
Half == Rat(1, 2)

\* sign of the representation error of a computed float
ErrSigns == {-1, 0, 1}

\* a float: its exact value and the sign of its representation error
Float(q, e) == [val |-> q, err |-> e]
Exact(q) == Float(q, 0)

\* x < c for a float x and a literal c
FLt(x, c) == RLt(x.val, c) \/ (x.val = c /\ x.err < 0)

RECURSIVE Pow10(_)
Pow10(k) == IF k = 0 THEN 1 ELSE 10 * Pow10(k - 1)

\* Python round(x, ndigits) of a float: the nearest multiple of 10^-ndigits;
\* on an exact tie the representation error decides, and an exactly
\* representable tie goes to the even neighbour
Round(x, ndigits) ==
    LET S == Pow10(ndigits)
        n == x.val[1] * S
        d == x.val[2]
        lo == n \div d
        rem == n % d
        k == IF 2 * rem < d THEN lo
             ELSE IF 2 * rem > d THEN lo + 1
             ELSE IF x.err > 0 THEN lo + 1
             ELSE IF x.err < 0 THEN lo
             ELSE IF lo % 2 = 0 THEN lo ELSE lo + 1
    IN Rat(k, S)

\* whether q * 10^ndigits is exactly halfway between two integers
IsTie(q, ndigits) == 2 * ((q[1] * Pow10(ndigits)) % q[2]) = q[2]

----------------------------------------------------------------------------
(* NoShowRiskAnalyzer: the risk calculators *)

\* string length above which an application field counts as filled
MeaningfulLen == 10

\* minutes in an hour: time stamps are minutes, the code compares hours
MinutesPerHour == 60

\* mutant: the weights of response time and negotiation are exchanged
InitWeights_swapped ==
    [response_time |-> Rat(25, 100),
     negotiation_complexity |-> Rat(30, 100),
     profile_completeness |-> Rat(20, 100),
     historical_pattern |-> Rat(25, 100)]

\* self.weights as __init__ sets it
InitWeights ==
    [response_time |-> Rat(30, 100),
     negotiation_complexity |-> Rat(25, 100),
     profile_completeness |-> Rat(20, 100),
     historical_pattern |-> Rat(25, 100)]

\* (updated_at - created_at).total_seconds() / 3600
HoursElapsed(iv) == Rat(iv.updated_at[1] - iv.created_at[1], MinutesPerHour)

\* mutant: each band includes its upper edge
_calculate_response_time_risk_inclusive(iv) ==
    IF iv.status = "invitation_sent" THEN Rat(5, 10)
    ELSE IF iv.created_at = Null \/ iv.updated_at = Null THEN Rat(5, 10)
    ELSE LET hours_elapsed == HoursElapsed(iv) IN
         IF RLe(hours_elapsed, Rat(6, 1)) THEN Rat(1, 10)
         ELSE IF RLe(hours_elapsed, Rat(24, 1)) THEN Rat(3, 10)
         ELSE IF RLe(hours_elapsed, Rat(48, 1)) THEN Rat(7, 10)
         ELSE Rat(9, 10)

_calculate_response_time_risk(iv) ==
    IF iv.status = "invitation_sent" THEN Rat(5, 10)
    ELSE IF iv.created_at = Null \/ iv.updated_at = Null THEN Rat(5, 10)
    ELSE LET hours_elapsed == HoursElapsed(iv) IN
         IF RLt(hours_elapsed, Rat(6, 1)) THEN Rat(1, 10)
         ELSE IF RLt(hours_elapsed, Rat(24, 1)) THEN Rat(3, 10)
         ELSE IF RLt(hours_elapsed, Rat(48, 1)) THEN Rat(7, 10)
         ELSE Rat(9, 10)

\* lookup is what cursor.execute / cursor.fetchone do for the negotiation
\* query: they raise, return no row, or return the latest session's row
_calculate_negotiation_risk(lookup) ==
    IF lookup.outcome = "raises" THEN Rat(1, 10)
    ELSE IF lookup.outcome = "none" THEN Rat(1, 10)
    ELSE LET rounds == lookup.round IN
         IF rounds = 1 THEN Rat(2, 10)
         ELSE IF rounds = 2 THEN Rat(5, 10)
         ELSE Rat(8, 10)

\* candidate.get(field) and len(str(candidate[field])) > 0
ProfileFieldFilled(v) == v # Null /\ v[1] > 0

\* mutant: a value of exactly 10 characters counts
AppFieldFilled_inclusive(v) == v # Null /\ v[1] > 0 /\ v[1] >= MeaningfulLen

\* value and len(str(value)) > 10
AppFieldFilled(v) == v # Null /\ v[1] > 0 /\ v[1] > MeaningfulLen

Count(b) == IF b THEN 1 ELSE 0

_calculate_profile_completeness_risk(cand, app) ==
    LET completeness_score ==
            Count(ProfileFieldFilled(cand.name))
          + Count(ProfileFieldFilled(cand.email))
          + Count(ProfileFieldFilled(cand.phone))
          + Count(AppFieldFilled(app.cover_letter))
          + Count(AppFieldFilled(app.address))
          + Count(AppFieldFilled(app.resume_url))
        total_fields == 3 + 3
        completeness_ratio == Rat(completeness_score, total_fields)
    IN RSub(One, completeness_ratio)

\* number of rows of the list whose status is s
RECURSIVE CountStatus(_, _)
CountStatus(rows, s) ==
    IF rows = <<>> THEN 0
    ELSE Count(Head(rows) = s) + CountStatus(Tail(rows), s)

\* mutant: the missing completions count in full, not by half
_calculate_historical_risk_full(lookup) ==
    IF lookup.outcome = "raises" THEN Half
    ELSE IF Len(lookup.rows) = 0 THEN Half
    ELSE LET total == Len(lookup.rows)
             no_shows == CountStatus(lookup.rows, "no_show")
             completed == CountStatus(lookup.rows, "completed")
         IN RMin(RAdd(Rat(no_shows, total), RSub(One, Rat(completed, total))), One)

\* mutant: the sum of the two rates is returned without the clamp to 1.0
_calculate_historical_risk_unclamped(lookup) ==
    IF lookup.outcome = "raises" THEN Half
    ELSE IF Len(lookup.rows) = 0 THEN Half
    ELSE LET total == Len(lookup.rows)
             no_shows == CountStatus(lookup.rows, "no_show")
             completed == CountStatus(lookup.rows, "completed")
         IN RAdd(Rat(no_shows, total), RMul(RSub(One, Rat(completed, total)), Half))

\* lookup is what cursor.execute / cursor.fetchall do for the history query:
\* they raise, or return the list of past interviews' statuses
_calculate_historical_risk(lookup) ==
    IF lookup.outcome = "raises" THEN Half
    ELSE IF Len(lookup.rows) = 0 THEN Half
    ELSE LET total == Len(lookup.rows)
             no_shows == CountStatus(lookup.rows, "no_show")
             completed == CountStatus(lookup.rows, "completed")
             no_show_rate == Rat(no_shows, total)
             completion_rate == Rat(completed, total)
             r == RAdd(no_show_rate, RMul(RSub(One, completion_rate), Half))
         IN RMin(r, One)

\* mutant: the cut points fall into the lower band
_categorize_risk_inclusive(x) ==
    IF ~FLt(Exact(Rat(3, 10)), x.val) THEN "low"
    ELSE IF ~FLt(Exact(Rat(7, 10)), x.val) THEN "medium"
    ELSE "high"

_categorize_risk(x) ==
    IF FLt(x, Rat(3, 10)) THEN "low"
    ELSE IF FLt(x, Rat(7, 10)) THEN "medium"
    ELSE "high"

\* mutant: the hours are reported without looking at the status
_get_response_time_hours_any_status(iv, err) ==
    IF iv.created_at = Null \/ iv.updated_at = Null THEN Zero
    ELSE Round(Float(HoursElapsed(iv), err), 1)

\* err: sign of the representation error of seconds / 3600
_get_response_time_hours(iv, err) ==
    IF iv.status = "invitation_sent" THEN Zero
    ELSE IF iv.created_at = Null \/ iv.updated_at = Null THEN Zero
    ELSE Round(Float(HoursElapsed(iv), err), 1)

\* mutant: the bands exclude their upper edge
_get_negotiation_rounds_from_risk_strict(negotiation_risk) ==
    IF RLt(negotiation_risk, Rat(1, 10)) THEN 0
    ELSE IF RLt(negotiation_risk, Rat(2, 10)) THEN 1
    ELSE IF RLt(negotiation_risk, Rat(5, 10)) THEN 2
    ELSE 3

_get_negotiation_rounds_from_risk(negotiation_risk) ==
    IF RLe(negotiation_risk, Rat(1, 10)) THEN 0
    ELSE IF RLe(negotiation_risk, Rat(2, 10)) THEN 1
    ELSE IF RLe(negotiation_risk, Rat(5, 10)) THEN 2
    ELSE 3

\* choices for the representation error of a value about to be rounded to
\* ndigits places or compared with the literals in cuts: it matters only on
\* a tie or on a cut
ErrChoices(q, ndigits, cuts) ==
    IF IsTie(q, ndigits) \/ q \in cuts THEN ErrSigns ELSE {0}

RiskCuts == {Rat(3, 10), Rat(7, 10)}

\* what analyze_risk gives its caller: a returned dictionary, or an exception
Returned(l, r) == [raised |-> "", locals |-> l, result |-> r]
Raised(e, l, r) == [raised |-> e, locals |-> l, result |-> r]

NoLocals ==
    [response_risk |-> Zero, negotiation_risk |-> Zero, profile_risk |-> Zero,
     historical_risk |-> Zero, total_risk |-> Exact(Zero)]
NoResult ==
    [no_show_risk |-> Zero, risk_level |-> "",
     factors |-> [response_time_hours |-> Zero, negotiation_rounds |-> 0,
                  profile_completeness |-> Zero, historical_reliability |-> Zero]]

\* mutant: the negotiation lookup is not wrapped in try/except
NegotiationLookupPropagates_uncaught(lookup) == TRUE

\* The try/except blocks of the two calculators that query the store catch
\* Exception: a lookup that raises never propagates out of the calculator.
NegotiationLookupPropagates(lookup) == FALSE
HistoryLookupPropagates(lookup) == FALSE

\* mutant: the profile term weighs the completeness, not the risk
TotalRisk_completeness(response_risk, negotiation_risk, profile_risk, historical_risk, w) ==
    RAdd(RAdd(RAdd(RMul(response_risk, w.response_time),
                   RMul(negotiation_risk, w.negotiation_complexity)),
              RMul(RSub(One, profile_risk), w.profile_completeness)),
         RMul(historical_risk, w.historical_pattern))

\* the weighted total of analyze_risk
TotalRisk(response_risk, negotiation_risk, profile_risk, historical_risk, w) ==
    RAdd(RAdd(RAdd(RMul(response_risk, w.response_time),
                   RMul(negotiation_risk, w.negotiation_complexity)),
              RMul(profile_risk, w.profile_completeness)),
         RMul(historical_risk, w.historical_pattern))

\* analyze_risk, the four calculations: the sub-risks
SubRisks(iv, nego, cand, app, hist) ==
    [response_risk |-> _calculate_response_time_risk(iv),
     negotiation_risk |-> _calculate_negotiation_risk(nego),
     profile_risk |-> _calculate_profile_completeness_risk(cand, app),
     historical_risk |-> _calculate_historical_risk(hist)]

\* analyze_risk, the weighted total: the sub-risks sub and total_risk
WithTotal(sub, w, err) ==
    [response_risk |-> sub.response_risk,
     negotiation_risk |-> sub.negotiation_risk,
     profile_risk |-> sub.profile_risk,
     historical_risk |-> sub.historical_risk,
     total_risk |->
        Float(TotalRisk(sub.response_risk, sub.negotiation_risk, sub.profile_risk,
                        sub.historical_risk, w),
              err.total)]

\* analyze_risk, the returned dictionary, from the local variables l
ResultOf(l, iv, err) ==
    [no_show_risk |-> Round(l.total_risk, 2),
     risk_level |-> _categorize_risk(l.total_risk),
     factors |->
        [response_time_hours |-> _get_response_time_hours(iv, err.hours),
         negotiation_rounds |-> _get_negotiation_rounds_from_risk(l.negotiation_risk),
         profile_completeness |->
            Round(Float(RSub(One, l.profile_risk), err.completeness), 2),
         historical_reliability |->
            Round(Float(RSub(One, l.historical_risk), err.reliability), 2)]]

ReturnedWith(l, iv, err) == Returned(l, ResultOf(l, iv, err))

\* analyze_risk.  iv, cand and app are the rows fetchone gives for the three
\* first queries (found = FALSE: no row).  err.total, err.hours,
\* err.completeness and err.reliability are the representation-error signs of
\* total_risk, seconds / 3600, 1 - profile_risk and 1 - historical_risk.
analyze_risk(iv, nego, cand, app, hist, w, err) ==
    IF ~iv.found THEN Raised("Interview not found", NoLocals, NoResult)
    ELSE IF ~cand.found THEN Raised("Candidate not found", NoLocals, NoResult)
    ELSE IF ~app.found THEN Raised("Application not found", NoLocals, NoResult)
    ELSE IF NegotiationLookupPropagates(nego) /\ nego.outcome = "raises"
    THEN Raised("negotiation lookup failed", NoLocals, NoResult)
    ELSE IF HistoryLookupPropagates(hist) /\ hist.outcome = "raises"
    THEN Raised("history lookup failed", NoLocals, NoResult)
    ELSE ReturnedWith(WithTotal(SubRisks(iv, nego, cand, app, hist), w, err), iv, err)

NoErr == [total |-> 0, hours |-> 0, completeness |-> 0, reliability |-> 0]

\* the error signs that can decide the outcome of analyze_risk on these rows
ErrRecords(iv, nego, cand, app, hist, w) ==
    IF ~(iv.found /\ cand.found /\ app.found) THEN {NoErr}
    ELSE
    [total : ErrChoices(TotalRisk(_calculate_response_time_risk(iv),
                                  _calculate_negotiation_risk(nego),
                                  _calculate_profile_completeness_risk(cand, app),
                                  _calculate_historical_risk(hist), w),
                        2, RiskCuts),
     hours : IF iv.status = "invitation_sent"
                \/ iv.created_at = Null \/ iv.updated_at = Null
             THEN {0} ELSE ErrChoices(HoursElapsed(iv), 1, {}),
     completeness :
        ErrChoices(RSub(One, _calculate_profile_completeness_risk(cand, app)), 2, {}),
     reliability : ErrChoices(RSub(One, _calculate_historical_risk(hist)), 2, {})]

----------------------------------------------------------------------------
(* Inputs *)

Statuses == {"invitation_sent", "slot_pending", "confirmed"}
TerminalStatuses == {"completed", "no_show", "cancelled"}

Raises == [outcome |-> "raises", round |-> 0, rows |-> <<>>]
NoRow == [outcome |-> "none", round |-> 0, rows |-> <<>>]
SessionRow(r) == [outcome |-> "row", round |-> r, rows |-> <<>>]
Rows(rs) == [outcome |-> "rows", round |-> 0, rows |-> rs]

\* every list of at most n terminal statuses
StatusLists(n) == UNION {[1..k -> TerminalStatuses] : k \in 0..n}

\* the list with c completed, a no_show and x cancelled interviews
StatusBag(c, a, x) ==
    [i \in 1..(c + a + x) |->
        IF i <= c THEN "completed" ELSE IF i <= c + a THEN "no_show" ELSE "cancelled"]

StatusBags(n) ==
    {StatusBag(c, a, x) : c \in 0..n, a \in 0..n, x \in 0..n} \cap StatusLists(n)

\* inputs of the single calculators
Interviews ==
    [found : {TRUE}, status : Statuses,
     created_at : {Null, Some(0), Some(MinutesPerHour \div 2)},
     updated_at : {Null} \cup {Some(h * MinutesPerHour - d) : h \in 0..MaxElapsedHours, d \in {0, 1}}]
Negotiations == {Raises, NoRow} \cup {SessionRow(r) : r \in (-1)..MaxRound}
ProfileValues == {Null, Some(0), Some(1)}
AppValues ==
    {Null, Some(0), Some(MeaningfulLen - 1), Some(MeaningfulLen), Some(MeaningfulLen + 1)}
Candidates ==
    [found : {TRUE}, name : ProfileValues, email : ProfileValues, phone : ProfileValues]
Applications ==
    [found : {TRUE}, cover_letter : AppValues, address : AppValues, resume_url : AppValues]
Histories == {Raises} \cup {Rows(rs) : rs \in StatusLists(MaxHist)}
Scores == {Float(Rat(k, ScoreGrid), e) : k \in 0..ScoreGrid, e \in ErrSigns}

\* no row for the id
NoInterview == [found |-> FALSE, status |-> "", created_at |-> Null, updated_at |-> Null]
NoCandidate == [found |-> FALSE, name |-> Null, email |-> Null, phone |-> Null]
NoApplication ==
    [found |-> FALSE, cover_letter |-> Null, address |-> Null, resume_url |-> Null]

\* inputs of analyze_risk: fewer values of each row, every band of each factor
SomeInterviews ==
    {NoInterview} \cup
    [found : {TRUE}, status : {"invitation_sent", "confirmed"},
     created_at : {Null, Some(0)},
     updated_at : {Null} \cup {Some(h * MinutesPerHour) : h \in {3, 12, 36, MaxElapsedHours}}]
SomeNegotiations == {Raises, NoRow} \cup {SessionRow(r) : r \in 0..(MaxRound + 1)}
Candidate(n, e, p) == [found |-> TRUE, name |-> n, email |-> e, phone |-> p]
SomeCandidates ==
    {NoCandidate,
     Candidate(Null, Null, Null), Candidate(Some(1), Null, Null),
     Candidate(Some(1), Some(1), Null), Candidate(Some(1), Some(1), Some(1))}
SomeApplications ==
    {NoApplication} \cup
    {[found |-> TRUE, cover_letter |-> v, address |-> v, resume_url |-> v] :
        v \in {Some(MeaningfulLen), Some(MeaningfulLen + 1)}}
SomeHistories == {Raises} \cup {Rows(rs) : rs \in StatusBags(MaxPast)}

\* inputs of two analyses in a row: two values of each row, every history
PairInterviews ==
    [found : {TRUE}, status : {"confirmed"}, created_at : {Some(0)},
     updated_at : {Some(h * MinutesPerHour) : h \in {3, 36}}]
PairNegotiations == {NoRow, SessionRow(1)}
PairCandidates == {Candidate(Some(1), Some(1), Null), Candidate(Some(1), Some(1), Some(1))}
PairApplications ==
    {[found |-> TRUE, cover_letter |-> v, address |-> v, resume_url |-> v] :
        v \in {Some(MeaningfulLen + 1)}}
PairHistories == {Rows(rs) : rs \in StatusBags(MaxHist)}

----------------------------------------------------------------------------
(* The interviews table and the history query of _calculate_historical_risk *)

CandidateIds == {1, 2}
TableStatuses == {"confirmed"} \cup TerminalStatuses

\* a row of the interviews table; its id is its index in the table
TableRows == [candidate_id : CandidateIds, created_at : {0, 1}, status : TableStatuses]
Tables == UNION {[1..n -> TableRows] : n \in 0..MaxInterviews}
NoTable == <<>>

\* SELECT id FROM interviews WHERE candidate_id = %s ORDER BY created_at DESC
\* LIMIT 1: the ids this subquery can return (several when the latest
\* created_at is shared, none when the candidate has no interview)
LatestIds(table, cid) ==
    {i \in DOMAIN table :
        /\ table[i].candidate_id = cid
        /\ \A j \in DOMAIN table :
            table[j].candidate_id = cid => table[j].created_at <= table[i].created_at}

LatestChoices(table, cid) ==
    IF LatestIds(table, cid) = {} THEN {Null} ELSE {Some(i) : i \in LatestIds(table, cid)}

\* the history query: the candidate's rows with a terminal status whose id
\* differs from the id the subquery returned (latest); id != NULL holds for
\* no row
HistoryQuery(table, cid, latest) ==
    IF latest = Null THEN {}
    ELSE {i \in DOMAIN table :
            /\ table[i].candidate_id = cid
            /\ i # latest[1]
            /\ table[i].status \in TerminalStatuses}

\* cursor.fetchall(): the statuses of the selected rows
RECURSIVE FetchAll(_, _, _)
FetchAll(table, ids, i) ==
    IF i > Len(table) THEN <<>>
    ELSE (IF i \in ids THEN <<table[i].status>> ELSE <<>>) \o FetchAll(table, ids, i + 1)

\* _get_interview: the row with this id, if any
_get_interview(table, iid) ==
    IF iid \in DOMAIN table
    THEN [found |-> TRUE, status |-> table[iid].status,
          created_at |-> Some(table[iid].created_at), updated_at |-> Null]
    ELSE NoInterview

\* the users and applications rows of an analysis on the table
StoredCandidate == Candidate(Some(1), Some(1), Some(1))
StoredApplication ==
    [found |-> TRUE, cover_letter |-> Some(MeaningfulLen + 1),
     address |-> Some(MeaningfulLen + 1), resume_url |-> Some(MeaningfulLen + 1)]

----------------------------------------------------------------------------
(* EnhancedResumeRanker: features and fit score *)

\* mutant: education weighs 0.10
RankerInitWeights_heavy ==
    [tfidf_similarity |-> Rat(40, 100),
     experience |-> Rat(25, 100),
     projects |-> Rat(20, 100),
     skills |-> Rat(10, 100),
     education |-> Rat(10, 100)]

\* self.weights as __init__ sets it
RankerInitWeights ==
    [tfidf_similarity |-> Rat(40, 100),
     experience |-> Rat(25, 100),
     projects |-> Rat(20, 100),
     skills |-> Rat(10, 100),
     education |-> Rat(5, 100)]

\* largest element of a set of naturals, 0 for the empty set
MaxOf(S) == IF S = {} THEN 0 ELSE CHOOSE m \in S : \A x \in S : x <= m

\* A resume text is modelled by what the code inspects of it: its length,
\* the length of text.strip(), what the extractors' patterns find in it and
\* whether the vectorizer keeps a token of it.
\*   years    the numbers the three experience patterns match
\*   keywords occurrences of the five project keywords
\*   skills   how many of the skill keywords it contains
\*   degrees  the education levels one of whose words it contains
_extract_skills(text) == text.skills
_extract_experience(text) == MaxOf(text.years)
_extract_project_count(text) == IF text.keywords < 20 THEN text.keywords ELSE 20
\* mutant: every further degree mentioned adds a level
_extract_education_score_sum(text) == MaxOf(text.degrees) + Cardinality(text.degrees)

\* mutant: the levels are tried from the lowest one up
_extract_education_score_lowest(text) ==
    IF 1 \in text.degrees THEN 1
    ELSE IF 2 \in text.degrees THEN 2
    ELSE IF 3 \in text.degrees THEN 3
    ELSE IF 4 \in text.degrees THEN 4
    ELSE IF 5 \in text.degrees THEN 5
    ELSE 0

_extract_education_score(text) ==
    IF 5 \in text.degrees THEN 5
    ELSE IF 4 \in text.degrees THEN 4
    ELSE IF 3 \in text.degrees THEN 3
    ELSE IF 2 \in text.degrees THEN 2
    ELSE IF 1 \in text.degrees THEN 1
    ELSE 0

\* features['skills'] is modelled by its length
_extract_features(text) ==
    [skills |-> _extract_skills(text),
     years_experience |-> _extract_experience(text),
     project_count |-> _extract_project_count(text),
     education_score |-> _extract_education_score(text)]

\* mutant: experience, projects and skills do not saturate
SubScores_unsaturated(tfidf_score, f) ==
    [tfidf_score |-> tfidf_score,
     experience_score |-> Rat(f.years_experience, 10),
     project_score |-> Rat(f.project_count, 15),
     skills_score |-> Rat(f.skills, 10),
     education_score |-> Rat(f.education_score, 5)]

\* the five sub-scores of _compute_fit_score
SubScores(tfidf_score, f) ==
    [tfidf_score |-> tfidf_score,
     experience_score |-> RMin(Rat(f.years_experience, 10), One),
     project_score |-> RMin(Rat(f.project_count, 15), One),
     skills_score |-> RMin(Rat(f.skills, 10), One),
     education_score |-> Rat(f.education_score, 5)]

NoScores == SubScores(Zero, [skills |-> 0, years_experience |-> 0,
                             project_count |-> 0, education_score |-> 0])

\* the weighted combination of the sub-scores sc
WeightedFit(sc, w) ==
    RAdd(RAdd(RAdd(RAdd(RMul(sc.tfidf_score, w.tfidf_similarity),
                        RMul(sc.experience_score, w.experience)),
                   RMul(sc.project_score, w.projects)),
              RMul(sc.skills_score, w.skills)),
         RMul(sc.education_score, w.education))

\* _compute_fit_score once the similarity is known.  f = Null stands for a
\* features argument the lookups features[...] raise on: the except branch
\* returns 0.0.
FitScoreOf(tfidf_score, f, w) ==
    IF f = Null THEN [scores |-> NoScores, fit_score |-> Zero]
    ELSE LET sc == SubScores(tfidf_score, f)
         IN [scores |-> sc, fit_score |-> RMul(WeightedFit(sc, w), Rat(100, 1))]

----------------------------------------------------------------------------
(* EnhancedResumeRanker: the shared vectorizer *)

\* self.vectorizer holds the vocabulary and idf weights of the documents it
\* was last fitted on: Null before the first fit, else Some(docs).  Documents
\* are named by a key: 0 for the sentences of a resume, the job's id for the
\* pair of a resume text and a job description.
SentencesKey == 0
DocumentsKey(job) == job.id

\* mutant: a fitted vectorizer is not fitted again
Fit_once(vec, docs) == IF vec = Null THEN Some(docs) ELSE vec

\* fit_transform, first half: the vectorizer is fitted on docs
Fit(vec, docs) == Some(docs)

\* the cosine similarity of the two TF-IDF rows of a resume text and a job
\* description: job.overlap / SimGrid, and 0 for a resume text of which the
\* vectorizer keeps no token
Cosine(text, job) == IF text.tokens THEN Rat(job.overlap, SimGrid) ELSE Zero

\* fit_transform, second half, and cosine_similarity: with the idf weights of
\* its own documents the similarity is the cosine; with those of other
\* documents the product raises on the shapes (the except branch returns
\* 0.0) or yields another value: stale is that outcome
SimilarityOf(text, job, idf, stale) ==
    IF idf = Some(DocumentsKey(job)) THEN Cosine(text, job) ELSE stale

\* _compute_tfidf_similarity run without interruption
_compute_tfidf_similarity(vec, text, job) ==
    LET fitted == Fit(vec, DocumentsKey(job))
    IN [vectorizer |-> fitted, value |-> SimilarityOf(text, job, fitted, Zero)]

\* _compute_fit_score run without interruption
_compute_fit_score(vec, text, job, f, w) ==
    LET sim == _compute_tfidf_similarity(vec, text, job)
        fit == FitScoreOf(sim.value, f, w)
    IN [vectorizer |-> sim.vectorizer, scores |-> fit.scores, fit_score |-> fit.fit_score]

----------------------------------------------------------------------------
(* EnhancedResumeRanker: generate_summary *)

\* A sentence is the sequence of the lengths of its words; a list of
\* sentences stands for the cleaned text, its sentences joined by spaces.
RECURSIVE SumSeq(_)
SumSeq(ws) == IF ws = <<>> THEN 0 ELSE Head(ws) + SumSeq(Tail(ws))

\* len(sentence): the words and the spaces between them
WordsLen(ws) == IF ws = <<>> THEN 0 ELSE SumSeq(ws) + Len(ws) - 1

RECURSIVE Flatten(_)
Flatten(ss) == IF ss = <<>> THEN <<>> ELSE Head(ss) \o Flatten(Tail(ss))

\* len(' '.join(sentences))
JoinLen(ss) == WordsLen(Flatten(ss))

\* resume texts shorter than this are not summarized nor scored
MinTextLen == 50

\* lengths of the three fixed messages generate_summary can return
TooShortMessageLen == 38
UnableMessageLen == 49
ErrorMessageLen == 32

\* a summary: the path that produced it and its length
Summary(k, n) == [kind |-> k, len |-> n]
NoSummary == Summary("", 0)

\* _select_top_sentences, the loop over ranked_indices: selected is the set
\* of indices taken so far, current_length the running length
RECURSIVE SelectLoop(_, _, _, _, _)
SelectLoop(ss, ranked, max, selected, current_length) ==
    IF ranked = <<>> THEN selected
    ELSE LET idx == Head(ranked)
             sentence_length == WordsLen(ss[idx])
             fits == current_length + sentence_length + 1 <= max
             sel == IF fits THEN selected \cup {idx} ELSE selected
             cur == IF fits THEN current_length + sentence_length + 1 ELSE current_length
         IN IF Cardinality(sel) >= 2 /\ 10 * cur > 8 * max THEN sel
            ELSE SelectLoop(ss, Tail(ranked), max, sel, cur)

\* the selected sentences in their original order
RECURSIVE InOrder(_, _, _)
InOrder(ss, selected, i) ==
    IF i > Len(ss) THEN <<>>
    ELSE (IF i \in selected THEN <<ss[i]>> ELSE <<>>) \o InOrder(ss, selected, i + 1)

\* mutant: every sentence is selected, fitting or not
_select_top_sentences_all(ss, ranked, max) == InOrder(ss, 1..Len(ss), 1)

\* mutant: the selected sentences are returned last one first
_select_top_sentences_reversed(ss, ranked, max) ==
    LET r == InOrder(ss, SelectLoop(ss, ranked, max, {}, 0), 1)
    IN [i \in 1..Len(r) |-> r[Len(r) + 1 - i]]

_select_top_sentences(ss, ranked, max) == InOrder(ss, SelectLoop(ss, ranked, max, {}, 0), 1)

\* len(s[:max]) for a string s of n characters: a negative max counts from
\* the end of s
SliceLen(n, max) ==
    IF max >= 0 THEN (IF n < max THEN n ELSE max)
    ELSE (IF n + max > 0 THEN n + max ELSE 0)

\* len(summary[:max].rsplit(' ', 1)[0]) for a summary of the words ws that is
\* longer than max: up to the last space among the first max characters, the
\* whole slice when it holds no space
RECURSIVE CutAtLastSpace(_, _, _)
CutAtLastSpace(ws, max, k) ==
    IF k <= 0 THEN SliceLen(WordsLen(ws), max)
    ELSE IF WordsLen(SubSeq(ws, 1, k)) < max THEN WordsLen(SubSeq(ws, 1, k))
    ELSE CutAtLastSpace(ws, max, k - 1)

\* one or two sentences: summary[:max_length] + ('...' if cut)
DirectSummary(n, max) == Summary("direct", IF n > max THEN SliceLen(n, max) + 3 ELSE n)

\* mutant: a failure of the tokenizer is answered with the message for a
\* text without sentences
generate_summary_unable(ss, tokenizer, ranked, max) ==
    IF JoinLen(ss) < MinTextLen THEN Summary("too_short", TooShortMessageLen)
    ELSE IF tokenizer = "raises" THEN Summary("unable", UnableMessageLen)
    ELSE IF Len(ss) = 0 THEN Summary("unable", UnableMessageLen)
    ELSE IF Len(ss) <= 2 THEN DirectSummary(JoinLen(ss), max)
    ELSE LET chosen == _select_top_sentences(ss, ranked, max)
             words == Flatten(chosen)
             n == WordsLen(words)
         IN IF n > max
            THEN Summary("truncated", CutAtLastSpace(words, max, Len(words) - 1) + 3)
            ELSE Summary("selected", n)

\* generate_summary.  tokenizer = "raises": a step inside the try block
\* raises (sent_tokenize without its tokenizer data); ranked is the order
\* np.argsort gives the scores of _score_sentences, best first
generate_summary(ss, tokenizer, ranked, max) ==
    IF JoinLen(ss) < MinTextLen THEN Summary("too_short", TooShortMessageLen)
    ELSE IF tokenizer = "raises" THEN Summary("error", ErrorMessageLen)
    ELSE IF Len(ss) = 0 THEN Summary("unable", UnableMessageLen)
    ELSE IF Len(ss) <= 2 THEN DirectSummary(JoinLen(ss), max)
    ELSE LET summary_sentences == _select_top_sentences(ss, ranked, max)
             words == Flatten(summary_sentences)
             n == WordsLen(words)
         IN IF n > max
            THEN Summary("truncated", CutAtLastSpace(words, max, Len(words) - 1) + 3)
            ELSE Summary("selected", n)

\* whether generate_summary reaches _score_sentences, which fits the vectorizer
ScoresSentences(ss, tokenizer) ==
    JoinLen(ss) >= MinTextLen /\ tokenizer # "raises" /\ Len(ss) > 2

\* how _score_sentences gets its scores when generate_summary reaches it:
\* "tfidf", the sums of the rows of the TF-IDF matrix, or "ones", np.ones
\* from the except branch when fit_transform raises; "" when it is not reached
ScoringOutcomes(ss, tokenizer) ==
    IF ScoresSentences(ss, tokenizer) THEN {"tfidf", "ones"} ELSE {""}

\* the vectorizer after _score_sentences: fitted on the sentences, or as it
\* was when fit_transform raised before it stored a vocabulary
AfterScoring(vec, sc) == IF sc = "tfidf" THEN Fit(vec, SentencesKey) ELSE vec

----------------------------------------------------------------------------
(* EnhancedResumeRanker: process_application *)

\* the max_length process_application passes to generate_summary
SummaryMaxLength == 200

ZeroFeatures ==
    [skills |-> 0, years_experience |-> 0, project_count |-> 0, education_score |-> 0]

\* the record the except branch returns
FailureResponse(e) ==
    [success |-> FALSE, fit_score |-> Zero, summary |-> NoSummary,
     extracted_features |-> ZeroFeatures, error |-> e]

SuccessResponse(fit, sum, f) ==
    [success |-> TRUE, fit_score |-> fit, summary |-> sum,
     extracted_features |-> f, error |-> ""]

NoResponse ==
    [success |-> FALSE, fit_score |-> Zero, summary |-> NoSummary,
     extracted_features |-> ZeroFeatures, error |-> ""]

\* mutant: a short resume text is processed like any other
TooShort_never(text) == FALSE

\* not resume_text or len(resume_text.strip()) < 50
TooShort(text) == text.chars = 0 \/ text.stripped < MinTextLen

\* the vectorizer after generate_summary
AfterSummary(vec, ss, tokenizer) ==
    IF ScoresSentences(ss, tokenizer) THEN Fit(vec, SentencesKey) ELSE vec

\* process_application.  download = "raises": _download_and_parse_resume
\* raises; err: sign of the representation error of fit_score
process_application(vec, download, text, ss, tokenizer, ranked, job, w, err) ==
    IF download = "raises"
    THEN [vectorizer |-> vec, features |-> ZeroFeatures, scores |-> NoScores,
          fit_score |-> Zero, summary |-> NoSummary,
          response |-> FailureResponse("download failed")]
    ELSE IF TooShort(text)
    THEN [vectorizer |-> vec, features |-> ZeroFeatures, scores |-> NoScores,
          fit_score |-> Zero, summary |-> NoSummary,
          response |-> FailureResponse("Resume text is empty or too short")]
    ELSE LET f == _extract_features(text)
             sum == generate_summary(ss, tokenizer, ranked, SummaryMaxLength)
             fit == _compute_fit_score(AfterSummary(vec, ss, tokenizer), text, job, f, w)
         IN [vectorizer |-> fit.vectorizer, features |-> f, scores |-> fit.scores,
             fit_score |-> fit.fit_score, summary |-> sum,
             response |-> SuccessResponse(Round(Float(fit.fit_score, err), 2), sum, f)]

----------------------------------------------------------------------------
(* Inputs of the ranker *)

Content(y, k, s, d) == [years |-> y, keywords |-> k, skills |-> s, degrees |-> d]
NoContent == Content({}, 0, 0, {})

\* resume text of kind k, n characters long, s of them left by strip();
\* tok: the vectorizer keeps a token of it
Text(k, n, s, c, tok) ==
    [kind |-> k, chars |-> n, stripped |-> s,
     years |-> c.years, keywords |-> c.keywords, skills |-> c.skills,
     degrees |-> c.degrees, tokens |-> tok]
NoText == Text("", 0, 0, NoContent, FALSE)

YearMentions == {{}, {5}, {10}, {5, MaxYears}}
KeywordCounts == {0, 1, 15, MaxKeywords}
SkillCounts == {0, 10, MaxSkills}
DegreeMentions == {{}, {1}, {3}, {2, 4}, {3, 5}}
Contents ==
    {Content(y, k, s, d) :
        y \in YearMentions, k \in KeywordCounts, s \in SkillCounts, d \in DegreeMentions}

\* characters that suffice to spell a content: "10 years experience" for a
\* mention of years, "built" for a keyword, "git" or "java" for a skill,
\* "phd", "master", "ba", "diploma" or "secondary" for a degree, each with a
\* separating space
ContentChars(c) ==
    20 * Cardinality(c.years) + 6 * c.keywords + 5 * c.skills + 10 * Cardinality(c.degrees)

\* the kinds of malformed or degenerate resume text
DegenerateKinds ==
    {"empty", "too_short", "whitespace_only", "special_chars_only",
     "binary_garbage", "minimal_text"}

DegenerateTexts ==
    {Text("empty", 0, 0, NoContent, FALSE)}
    \cup {Text("too_short", n, n, c, tok) :
            n \in {1, 30, MinTextLen - 1}, c \in Contents, tok \in BOOLEAN}
    \cup {Text("whitespace_only", n, 0, NoContent, FALSE) : n \in {10, 100}}
    \cup {Text("special_chars_only", n, n, NoContent, FALSE) : n \in {50, 200}}
    \cup {Text("binary_garbage", n, n, c, tok) :
            n \in {50, 200}, c \in Contents, tok \in BOOLEAN}
    \cup {Text("minimal_text", n, n, NoContent, FALSE) : n \in {19, 179}}

\* texts of resumes, some with white space around them
ResumeTexts ==
    {Text("resume", n, n - d, c, tok) :
        n \in {MinTextLen + 5, 2000}, d \in {0, 10}, c \in Contents, tok \in BOOLEAN}

\* the texts that can be spelled: the content fits, what the extractors find
\* are tokens, and a token has two characters at least
Texts == {t \in DegenerateTexts \cup ResumeTexts :
            LET c == Content(t.years, t.keywords, t.skills, t.degrees)
            IN /\ ContentChars(c) <= t.stripped
               /\ c # NoContent => t.tokens
               /\ t.tokens => t.stripped >= 2}

\* a job description: job.overlap / SimGrid is the cosine of its TF-IDF row
\* with that of a resume text that has tokens
Job(i, k) == [id |-> i, overlap |-> k]
NoJob == Job(0, 0)
Jobs == {Job(i, k) : i \in 1..MaxJobs, k \in 0..SimGrid}
SomeJobs == {Job(1, k) : k \in {0, 1, SimGrid}}

\* features records passed to _compute_fit_score, in range or not; Null: a
\* features argument without the keys
FeatureRecords ==
    {Null} \cup
    [skills : {0, 10, MaxSkills}, years_experience : {-1, 0, 5, 10, MaxYears},
     project_count : {0, 15, 20}, education_score : 0..MaxEducation]

\* the two texts the vectorizer tells apart
TokenTexts ==
    {Text("resume", 2000, 2000, NoContent, FALSE),
     Text("resume", 2000, 2000, Content({5}, 1, 0, {3}), TRUE)}

\* sentences of cleaned resume texts, as lists of word lengths
Sentences == {<<12>>, <<110>>, <<12, 12>>, <<110, 110>>}
SentenceLists == UNION {[1..n -> Sentences] : n \in 0..MaxSentences}

\* sentences given to _select_top_sentences alone: short ones, two that
\* together pass 80% of a max_length of 100, one that fits no summary of 100
SelectionSentences == {<<12>>, <<40>>, <<45>>, <<110>>}
SelectionLists == UNION {[1..n -> SelectionSentences] : n \in 0..MaxSentences}

\* np.argsort(scores)[::-1]: an order of the n sentences
Rankings(n) == {r \in [1..n -> 1..n] : \A i, j \in 1..n : r[i] = r[j] => i = j}

\* max_length arguments: the default, a smaller one, and two that leave room
\* for no sentence
MaxLengths == {-1, 0, 100, SummaryMaxLength}
Outcomes == {"ok", "raises"}

\* inputs of process_application: fewer contents and sentences
ProcessContents ==
    {NoContent, Content({10}, 15, 10, {3, 5}),
     Content({5, MaxYears}, MaxKeywords, MaxSkills, {2, 4})}
ProcessTexts ==
    {t \in Texts : Content(t.years, t.keywords, t.skills, t.degrees) \in ProcessContents}
ProcessSentenceLists == UNION {[1..n -> {<<12>>, <<110, 110>>}] : n \in 0..MaxSentences}

\* the sentence lists a text can clean to: cleaning never lengthens a text
CleanedTo(t) == {ss \in ProcessSentenceLists : JoinLen(ss) <= t.stripped}

----------------------------------------------------------------------------
(* NoShowRiskAnalyzer.analyze_risk on its database connection *)

\* The three queries of analyze_risk outside a try block of their own:
\* lookup names the one whose cursor.execute raises, "" when none does.
FailingLookups == {"", "interview", "candidate", "application"}

\* mutant: the connection is closed before the history is read
ClosingEvents_early == <<"negotiation", "cursor.close", "conn.close", "history">>

\* the calculations and the two close calls of a call that found its three
\* rows: the negotiation and history lookups (a lookup that raises is caught
\* in its calculator), then cursor.close() and conn.close()
ClosingEvents == <<"negotiation", "history", "cursor.close", "conn.close">>

\* What a call of analyze_risk does on the connection, in order: "connect"
\* and "cursor" for _get_db_connection and conn.cursor, the name of a row for
\* a fetchone that returned, the two close calls.  connect = "raises":
\* psycopg2.connect raises.  A call that raises goes to the except block,
\* which logs and re-raises.
StoreEvents(connect, lookup, iv, cand, app) ==
    IF connect = "raises" THEN <<>>
    ELSE IF lookup = "interview" THEN <<"connect", "cursor">>
    ELSE IF ~iv.found \/ lookup = "candidate" THEN <<"connect", "cursor", "interview">>
    ELSE IF ~cand.found \/ lookup = "application"
    THEN <<"connect", "cursor", "interview", "candidate">>
    ELSE IF ~app.found THEN <<"connect", "cursor", "interview", "candidate", "application">>
    ELSE <<"connect", "cursor", "interview", "candidate", "application">> \o ClosingEvents

\* analyze_risk with the failures of the connection and of the three first
\* queries: these raise an exception that is no ValueError
RiskAnalysis(connect, lookup, iv, nego, cand, app, hist, w, err) ==
    IF connect = "raises" THEN Raised("connection failed", NoLocals, NoResult)
    ELSE IF lookup = "interview" THEN Raised("lookup failed", NoLocals, NoResult)
    ELSE IF iv.found /\ lookup = "candidate" THEN Raised("lookup failed", NoLocals, NoResult)
    ELSE IF iv.found /\ cand.found /\ lookup = "application"
    THEN Raised("lookup failed", NoLocals, NoResult)
    ELSE analyze_risk(iv, nego, cand, app, hist, w, err)

\* the messages of the ValueError analyze_risk raises for a missing row
NotFoundErrors == {"Interview not found", "Candidate not found", "Application not found"}

----------------------------------------------------------------------------
(* app.py: the analyze-risk endpoint *)

\* The body of the request as request.get_json() gives it: json = "object",
\* a JSON object that has or lacks each of the two keys; "null", None;
\* "unparsable", get_json raises.
Body(j, iid, cid) == [json |-> j, interview_id |-> iid, candidate_id |-> cid]
NoBody == Body("", FALSE, FALSE)
Bodies ==
    {Body("unparsable", FALSE, FALSE), Body("null", FALSE, FALSE)}
    \cup {Body("object", iid, cid) : iid, cid \in BOOLEAN}

\* not data or 'interview_id' not in data or 'candidate_id' not in data
MissingFields(body) == body.json = "null" \/ ~body.interview_id \/ ~body.candidate_id

\* the answer: the status code, the success field of the JSON document
\* ("absent" in a result) and whether risk_analyzer.analyze_risk was called
HttpResponse(code, s, inv) == [status |-> code, success |-> s, invoked |-> inv]
NoHttpResponse == HttpResponse(0, "", FALSE)

\* mutant: a missing row is answered like any other failure
analyze_risk_route_500(body, run) ==
    IF body.json = "unparsable" THEN HttpResponse(500, "false", FALSE)
    ELSE IF MissingFields(body) THEN HttpResponse(400, "false", FALSE)
    ELSE IF run.raised = "" THEN HttpResponse(200, "absent", TRUE)
    ELSE HttpResponse(500, "false", TRUE)

\* the route function analyze_risk of app.py; run is what
\* risk_analyzer.analyze_risk does when called
analyze_risk_route(body, run) ==
    IF body.json = "unparsable" THEN HttpResponse(500, "false", FALSE)
    ELSE IF MissingFields(body) THEN HttpResponse(400, "false", FALSE)
    ELSE IF run.raised = "" THEN HttpResponse(200, "absent", TRUE)
    ELSE IF run.raised \in NotFoundErrors THEN HttpResponse(404, "false", TRUE)
    ELSE HttpResponse(500, "false", TRUE)

----------------------------------------------------------------------------
(* State machine: one call at a time on the module-level analyzer *)

NoFirst == [called |-> FALSE, locals |-> NoLocals, result |-> NoResult]

\* a row the call did not get to read stays unread
ReadIf(b, row, unread) == IF b THEN row ELSE unread

Range(seq) == {seq[i] : i \in DOMAIN seq}

\* rows of the requests to the endpoint: a row is there or not
EndpointInterviews ==
    {NoInterview,
     [found |-> TRUE, status |-> "confirmed", created_at |-> Some(0),
      updated_at |-> Some(12 * MinutesPerHour)]}
EndpointCandidates == {NoCandidate, Candidate(Some(1), Some(1), Null)}
EndpointApplications == {NoApplication, StoredApplication}
EndpointHistories == {Raises, Rows(<<>>), Rows(<<"completed", "no_show">>)}

\* the frame of a call: nothing read, nothing returned
NoCall ==
    /\ fn = "" /\ interview = NoInterview /\ negotiation = NoRow
    /\ candidate = NoCandidate /\ application = NoApplication /\ history = NoRow
    /\ risk_score = Exact(Zero) /\ risk = Zero /\ level = ""
    /\ locals = NoLocals /\ result = NoResult /\ raised = "" /\ first = NoFirst

\* no analysis on the table in progress
NoStoreCall ==
    /\ interviews = NoTable /\ interview_id = 0 /\ candidate_id = 0
    /\ past_interviews = {}

\* a concurrent invocation: the method, its job description, how far it got
\* (start, fitted, done) and what it returned
Request(f, job) ==
    [fn |-> f, job |-> job, step |-> "start", similarity |-> Zero, scoring |-> ""]
NoRequests == <<>>

\* no request to the endpoint in progress
NoEndpointCall == request_body = NoBody /\ http_response = NoHttpResponse

\* no sentence selection in progress
NoSelection ==
    /\ tokenizing = "" /\ scoring = "" /\ ranked_indices = <<>> /\ selected_sentences = <<>>

\* no ranker call in progress
NoRankerCall ==
    /\ resume_text = NoText /\ job_description = NoJob /\ features = ZeroFeatures
    /\ scores = NoScores /\ fit_score = Zero /\ max_length = 0
    /\ sentences = <<>> /\ summary = NoSummary /\ response = NoResponse
    /\ requests = NoRequests /\ vectorizer_before = Null

\* app.py constructs the ranker and the analyzer once, at import
Init ==
    /\ pc = "idle" /\ weights = InitWeights /\ NoCall
    /\ NoStoreCall
    /\ ranker_weights = RankerInitWeights /\ vectorizer = Null /\ NoRankerCall
    /\ events = <<>> /\ NoEndpointCall /\ NoSelection

CallCategorizeRisk ==
    /\ pc = "idle"
    /\ \E x \in Scores :
        /\ risk_score' = x
        /\ level' = _categorize_risk(x)
    /\ fn' = "_categorize_risk" /\ pc' = "returned"
    /\ UNCHANGED <<interview, negotiation, candidate, application, history,
                   risk, locals, result, raised, weights, first>>
    /\ UNCHANGED <<svars, rvars, events, hvars, gvars>>

CallResponseTimeRisk ==
    /\ pc = "idle"
    /\ \E iv \in Interviews :
        /\ interview' = iv
        /\ risk' = _calculate_response_time_risk(iv)
    /\ fn' = "_calculate_response_time_risk" /\ pc' = "returned"
    /\ UNCHANGED <<negotiation, candidate, application, history,
                   risk_score, level, locals, result, raised, weights, first>>
    /\ UNCHANGED <<svars, rvars, events, hvars, gvars>>

CallNegotiationRisk ==
    /\ pc = "idle"
    /\ \E ng \in Negotiations :
        /\ negotiation' = ng
        /\ risk' = _calculate_negotiation_risk(ng)
    /\ fn' = "_calculate_negotiation_risk" /\ pc' = "returned"
    /\ UNCHANGED <<interview, candidate, application, history,
                   risk_score, level, locals, result, raised, weights, first>>
    /\ UNCHANGED <<svars, rvars, events, hvars, gvars>>

CallProfileCompletenessRisk ==
    /\ pc = "idle"
    /\ \E c \in Candidates, a \in Applications :
        /\ candidate' = c
        /\ application' = a
        /\ risk' = _calculate_profile_completeness_risk(c, a)
    /\ fn' = "_calculate_profile_completeness_risk" /\ pc' = "returned"
    /\ UNCHANGED <<interview, negotiation, history,
                   risk_score, level, locals, result, raised, weights, first>>
    /\ UNCHANGED <<svars, rvars, events, hvars, gvars>>

CallHistoricalRisk ==
    /\ pc = "idle"
    /\ \E h \in Histories :
        /\ history' = h
        /\ risk' = _calculate_historical_risk(h)
    /\ fn' = "_calculate_historical_risk" /\ pc' = "returned"
    /\ UNCHANGED <<interview, negotiation, candidate, application,
                   risk_score, level, locals, result, raised, weights, first>>
    /\ UNCHANGED <<svars, rvars, events, hvars, gvars>>

\* one analysis of rows drawn from the given sets
Analyze(ivs, ngs, cs, as, hs) ==
    \E iv \in ivs, ng \in ngs, c \in cs, a \in as, h \in hs :
        \E err \in ErrRecords(iv, ng, c, a, h, weights) :
            \E run \in {analyze_risk(iv, ng, c, a, h, weights, err)} :
            /\ interview' = iv
            /\ candidate' = ReadIf(iv.found, c, NoCandidate)
            /\ application' = ReadIf(iv.found /\ c.found, a, NoApplication)
            /\ negotiation' = ReadIf(iv.found /\ c.found /\ a.found, ng, NoRow)
            /\ history' = ReadIf(iv.found /\ c.found /\ a.found, h, NoRow)
            /\ locals' = run.locals
            /\ result' = run.result
            /\ raised' = run.raised
            /\ events' = StoreEvents("ok", "", iv, c, a)
            /\ pc' = IF run.raised = "" THEN "returned" ELSE "raised"

AnalyzeRisk ==
    /\ pc = "idle"
    /\ Analyze(SomeInterviews, SomeNegotiations, SomeCandidates,
               SomeApplications, SomeHistories)
    /\ fn' = "analyze_risk"
    /\ UNCHANGED <<risk_score, risk, level, weights, first>>
    /\ UNCHANGED <<svars, rvars, hvars, gvars>>

\* the first of two analyses in a row
AnalyzeRiskFirst ==
    /\ pc = "idle"
    /\ Analyze(PairInterviews, PairNegotiations, PairCandidates,
               PairApplications, PairHistories)
    /\ fn' = "analyze_risk"
    /\ UNCHANGED <<risk_score, risk, level, weights, first>>
    /\ UNCHANGED <<svars, rvars, hvars, gvars>>

\* the second: the same rows but for one, which the store holds changed
AnalyzeRiskAgain ==
    /\ pc = "returned" /\ fn = "analyze_risk" /\ ~first.called
    /\ first' = [called |-> TRUE, locals |-> locals, result |-> result]
    /\ \/ Analyze(PairInterviews \ {interview}, {negotiation}, {candidate},
                  {application}, {history})
       \/ Analyze({interview}, PairNegotiations \ {negotiation}, {candidate},
                  {application}, {history})
       \/ Analyze({interview}, {negotiation}, PairCandidates \ {candidate},
                  {application}, {history})
       \/ Analyze({interview}, {negotiation}, {candidate},
                  {application}, PairHistories \ {history})
    /\ UNCHANGED <<fn, risk_score, risk, level, weights>>
    /\ UNCHANGED <<svars, rvars, hvars, gvars>>

\* the caller takes the returned value; the call's frame is gone
Return ==
    /\ pc \in {"returned", "raised"}
    /\ pc' = "idle" /\ raised' = ""
    /\ fn' = "" /\ interview' = NoInterview /\ negotiation' = NoRow
    /\ candidate' = NoCandidate /\ application' = NoApplication /\ history' = NoRow
    /\ risk_score' = Exact(Zero) /\ risk' = Zero /\ level' = ""
    /\ locals' = NoLocals /\ result' = NoResult /\ first' = NoFirst
    /\ interviews' = NoTable /\ interview_id' = 0 /\ candidate_id' = 0
    /\ past_interviews' = {}
    /\ resume_text' = NoText /\ job_description' = NoJob /\ features' = ZeroFeatures
    /\ scores' = NoScores /\ fit_score' = Zero /\ max_length' = 0
    /\ sentences' = <<>> /\ summary' = NoSummary /\ response' = NoResponse
    /\ requests' = NoRequests /\ vectorizer_before' = Null
    /\ events' = <<>> /\ request_body' = NoBody /\ http_response' = NoHttpResponse
    /\ tokenizing' = "" /\ scoring' = ""
    /\ ranked_indices' = <<>> /\ selected_sentences' = <<>>
    /\ UNCHANGED <<weights, ranker_weights, vectorizer>>

Next ==
    \/ CallCategorizeRisk
    \/ CallResponseTimeRisk
    \/ CallNegotiationRisk
    \/ CallProfileCompletenessRisk
    \/ CallHistoricalRisk
    \/ AnalyzeRisk
    \/ Return

Spec == Init /\ [][Next]_vars

\* two analyses in a row, to compare their results
NextPair ==
    \/ AnalyzeRiskFirst
    \/ AnalyzeRiskAgain
    \/ Return

SpecPair == Init /\ [][NextPair]_vars

\* analyze_risk on the interviews table: the history is what the history
\* query selects
AnalyzeRiskInStore ==
    /\ pc = "idle"
    /\ \E table \in Tables, iid \in 1..MaxInterviews, cid \in CandidateIds :
        \E latest \in LatestChoices(table, cid) :
            \E ids \in {HistoryQuery(table, cid, latest)} :
            /\ interviews' = table
            /\ interview_id' = iid
            /\ candidate_id' = cid
            /\ past_interviews' = ReadIf(iid \in DOMAIN table, ids, {})
            /\ Analyze({_get_interview(table, iid)}, {NoRow}, {StoredCandidate},
                       {StoredApplication}, {Rows(FetchAll(table, ids, 1))})
    /\ fn' = "analyze_risk"
    /\ UNCHANGED <<risk_score, risk, level, weights, first>>
    /\ UNCHANGED <<rvars, hvars, gvars>>

NextStore ==
    \/ AnalyzeRiskInStore
    \/ Return

SpecStore == Init /\ [][NextStore]_vars

\* a request to the analyze-risk endpoint: the route function and, when the
\* body has both fields, the call of risk_analyzer.analyze_risk on a
\* connection
AnalyzeRiskRequest ==
    /\ pc = "idle"
    /\ \E body \in Bodies, connect \in Outcomes, lookup \in FailingLookups :
        \E iv \in EndpointInterviews, ng \in SomeNegotiations, c \in EndpointCandidates,
           a \in EndpointApplications, h \in EndpointHistories :
            \E err \in ErrRecords(iv, ng, c, a, h, weights) :
                \E run \in {RiskAnalysis(connect, lookup, iv, ng, c, a, h, weights, err)} :
                    \E invoked \in {analyze_risk_route(body, run).invoked} :
                        \E ev \in {StoreEvents(connect, lookup, iv, c, a)} :
                        /\ request_body' = body
                        /\ http_response' = analyze_risk_route(body, run)
                        /\ events' = ReadIf(invoked, ev, <<>>)
                        /\ interview' = ReadIf(invoked /\ "interview" \in Range(ev),
                                               iv, NoInterview)
                        /\ candidate' = ReadIf(invoked /\ "candidate" \in Range(ev),
                                               c, NoCandidate)
                        /\ application' = ReadIf(invoked /\ "application" \in Range(ev),
                                                 a, NoApplication)
                        /\ negotiation' = ReadIf(invoked /\ "negotiation" \in Range(ev),
                                                 ng, NoRow)
                        /\ history' = ReadIf(invoked /\ "history" \in Range(ev), h, NoRow)
                        /\ locals' = ReadIf(invoked, run.locals, NoLocals)
                        /\ result' = ReadIf(invoked, run.result, NoResult)
                        /\ raised' = ReadIf(invoked, run.raised, "")
    /\ fn' = "analyze_risk_route" /\ pc' = "returned"
    /\ UNCHANGED <<risk_score, risk, level, weights, first>>
    /\ UNCHANGED <<svars, rvars, gvars>>

NextEndpoint ==
    \/ AnalyzeRiskRequest
    \/ AnalyzeRisk
    \/ Return

SpecEndpoint == Init /\ [][NextEndpoint]_vars

----------------------------------------------------------------------------
(* State machine: one call at a time on the module-level ranker *)

CallExtractFeatures ==
    /\ pc = "idle"
    /\ \E t \in Texts :
        /\ resume_text' = t
        /\ features' = _extract_features(t)
    /\ fn' = "_extract_features" /\ pc' = "returned"
    /\ vectorizer_before' = vectorizer
    /\ UNCHANGED <<interview, negotiation, candidate, application, history,
                   risk_score, risk, level, locals, result, raised, weights, first>>
    /\ UNCHANGED <<events, hvars, gvars>>
    /\ UNCHANGED <<svars, ranker_weights, vectorizer, job_description, scores,
                   fit_score, max_length, sentences, summary, response, requests>>

CallTfidfSimilarity ==
    /\ pc = "idle"
    /\ \E t \in TokenTexts, job \in Jobs :
        \E run \in {_compute_tfidf_similarity(vectorizer, t, job)} :
            /\ resume_text' = t
            /\ job_description' = job
            /\ scores' = [NoScores EXCEPT !.tfidf_score = run.value]
            /\ vectorizer' = run.vectorizer
    /\ fn' = "_compute_tfidf_similarity" /\ pc' = "returned"
    /\ vectorizer_before' = vectorizer
    /\ UNCHANGED <<interview, negotiation, candidate, application, history,
                   risk_score, risk, level, locals, result, raised, weights, first>>
    /\ UNCHANGED <<events, hvars, gvars>>
    /\ UNCHANGED <<svars, ranker_weights, features, fit_score, max_length,
                   sentences, summary, response, requests>>

CallComputeFitScore ==
    /\ pc = "idle"
    /\ \E t \in TokenTexts, job \in Jobs, f \in FeatureRecords :
        \E run \in {_compute_fit_score(vectorizer, t, job, f, ranker_weights)} :
            /\ resume_text' = t
            /\ job_description' = job
            /\ features' = f
            /\ scores' = run.scores
            /\ fit_score' = run.fit_score
            /\ vectorizer' = run.vectorizer
    /\ fn' = "_compute_fit_score" /\ pc' = "returned"
    /\ vectorizer_before' = vectorizer
    /\ UNCHANGED <<interview, negotiation, candidate, application, history,
                   risk_score, risk, level, locals, result, raised, weights, first>>
    /\ UNCHANGED <<events, hvars, gvars>>
    /\ UNCHANGED <<svars, ranker_weights, max_length, sentences, summary,
                   response, requests>>

\* _extract_features, then _compute_fit_score on the features it returned
ExtractThenScore ==
    /\ pc = "idle"
    /\ \E t \in Texts, job \in SomeJobs :
        \E f \in {_extract_features(t)} :
            \E run \in {_compute_fit_score(vectorizer, t, job, f, ranker_weights)} :
                /\ resume_text' = t
                /\ job_description' = job
                /\ features' = f
                /\ scores' = run.scores
                /\ fit_score' = run.fit_score
                /\ vectorizer' = run.vectorizer
    /\ fn' = "extract_then_score" /\ pc' = "returned"
    /\ vectorizer_before' = vectorizer
    /\ UNCHANGED <<interview, negotiation, candidate, application, history,
                   risk_score, risk, level, locals, result, raised, weights, first>>
    /\ UNCHANGED <<events, hvars, gvars>>
    /\ UNCHANGED <<svars, ranker_weights, max_length, sentences, summary,
                   response, requests>>

CallGenerateSummary ==
    /\ pc = "idle"
    /\ \E ss \in SentenceLists, tokenizer \in Outcomes, max \in MaxLengths :
        \E sc \in ScoringOutcomes(ss, tokenizer), ranked \in Rankings(Len(ss)) :
            /\ sentences' = ss
            /\ max_length' = max
            /\ tokenizing' = ReadIf(JoinLen(ss) >= MinTextLen, tokenizer, "")
            /\ scoring' = sc
            /\ ranked_indices' = ReadIf(sc # "", ranked, <<>>)
            /\ selected_sentences' = ReadIf(sc # "", _select_top_sentences(ss, ranked, max), <<>>)
            /\ summary' = generate_summary(ss, tokenizer, ranked, max)
            /\ vectorizer' = AfterScoring(vectorizer, sc)
    /\ fn' = "generate_summary" /\ pc' = "returned"
    /\ vectorizer_before' = vectorizer
    /\ UNCHANGED <<interview, negotiation, candidate, application, history,
                   risk_score, risk, level, locals, result, raised, weights, first>>
    /\ UNCHANGED <<events, hvars>>
    /\ UNCHANGED <<svars, ranker_weights, resume_text, job_description, features,
                   scores, fit_score, response, requests>>

ProcessApplication ==
    /\ pc = "idle"
    /\ \E download \in Outcomes, t \in ProcessTexts, job \in SomeJobs, tokenizer \in Outcomes :
        \E ss \in CleanedTo(t) :
          \E sc \in ScoringOutcomes(ss, tokenizer), ranked \in Rankings(Len(ss)) :
            \E exact \in {process_application(vectorizer, download, t, ss, tokenizer,
                                              ranked, job, ranker_weights, 0)} :
              \E err \in ErrChoices(exact.fit_score, 2, {}) :
                \E run \in {process_application(vectorizer, download, t, ss, tokenizer,
                                                ranked, job, ranker_weights, err)} :
                    /\ resume_text' = ReadIf(download = "ok", t, NoText)
                    /\ sentences' = ReadIf(download = "ok" /\ ~TooShort(t), ss, <<>>)
                    /\ job_description' = job
                    /\ features' = run.features
                    /\ scores' = run.scores
                    /\ fit_score' = run.fit_score
                    /\ summary' = run.summary
                    /\ response' = run.response
                    /\ vectorizer' = run.vectorizer
                    /\ tokenizing' =
                        ReadIf(download = "ok" /\ ~TooShort(t) /\ JoinLen(ss) >= MinTextLen,
                               tokenizer, "")
                    /\ scoring' = ReadIf(download = "ok" /\ ~TooShort(t), sc, "")
                    /\ ranked_indices' =
                        ReadIf(download = "ok" /\ ~TooShort(t) /\ sc # "", ranked, <<>>)
                    /\ selected_sentences' =
                        ReadIf(download = "ok" /\ ~TooShort(t) /\ sc # "",
                               _select_top_sentences(ss, ranked, SummaryMaxLength), <<>>)
    /\ max_length' = SummaryMaxLength
    /\ fn' = "process_application" /\ pc' = "returned"
    /\ vectorizer_before' = vectorizer
    /\ UNCHANGED <<interview, negotiation, candidate, application, history,
                   risk_score, risk, level, locals, result, raised, weights, first>>
    /\ UNCHANGED <<events, hvars>>
    /\ UNCHANGED <<svars, ranker_weights, requests>>

CallSelectTopSentences ==
    /\ pc = "idle"
    /\ \E ss \in SelectionLists, max \in MaxLengths :
        \E ranked \in Rankings(Len(ss)) :
            /\ sentences' = ss
            /\ max_length' = max
            /\ ranked_indices' = ranked
            /\ selected_sentences' = _select_top_sentences(ss, ranked, max)
    /\ fn' = "_select_top_sentences" /\ pc' = "returned"
    /\ vectorizer_before' = vectorizer
    /\ UNCHANGED <<interview, negotiation, candidate, application, history,
                   risk_score, risk, level, locals, result, raised, weights, first>>
    /\ UNCHANGED <<events, hvars, tokenizing, scoring>>
    /\ UNCHANGED <<svars, ranker_weights, vectorizer, resume_text, job_description,
                   features, scores, fit_score, summary, response, requests>>

NextRanker ==
    \/ CallSelectTopSentences
    \/ CallExtractFeatures
    \/ CallTfidfSimilarity
    \/ CallComputeFitScore
    \/ ExtractThenScore
    \/ CallGenerateSummary
    \/ ProcessApplication
    \/ Return

SpecRanker == Init /\ [][NextRanker]_vars

\* every operation of the analyzer and of the ranker, one call at a time
NextService ==
    \/ Next
    \/ NextRanker

SpecService == Init /\ [][NextService]_vars

----------------------------------------------------------------------------
(* State machine: two requests served at once by the module-level ranker *)

\* the requests that can be served: similarities of a resume text with a
\* job description, and summaries
Requests ==
    {Request("_compute_tfidf_similarity", job) : job \in Jobs}
    \cup {Request("generate_summary", NoJob)}

\* the documents the request fits the vectorizer on
DocsOf(r) == IF r.fn = "generate_summary" THEN SentencesKey ELSE DocumentsKey(r.job)

\* the text of a request: one the vectorizer keeps tokens of
RequestText == Text("resume", 2000, 2000, Content({5}, 1, 0, {3}), TRUE)

\* two requests on different documents arrive
Receive ==
    /\ pc = "idle"
    /\ \E r1, r2 \in Requests :
        /\ DocsOf(r1) # DocsOf(r2)
        /\ requests' = <<r1, r2>>
    /\ pc' = "serving" /\ fn' = "concurrent"
    /\ vectorizer_before' = vectorizer
    /\ UNCHANGED <<interview, negotiation, candidate, application, history,
                   risk_score, risk, level, locals, result, raised, weights, first>>
    /\ UNCHANGED <<events, hvars, gvars>>
    /\ UNCHANGED <<svars, ranker_weights, vectorizer, resume_text, job_description,
                   features, scores, fit_score, max_length, sentences, summary, response>>

\* request i: self.vectorizer.fit_transform, the fit
FitStep(i) ==
    /\ pc = "serving"
    /\ requests[i].step = "start"
    /\ vectorizer' = Fit(vectorizer, DocsOf(requests[i]))
    /\ requests' = [requests EXCEPT ![i].step = "fitted"]
    /\ UNCHANGED <<avars, svars, events, hvars, gvars>>
    /\ UNCHANGED <<ranker_weights, resume_text, job_description, features, scores,
                   fit_score, max_length, sentences, summary, response,
                   vectorizer_before>>

\* what _score_sentences returns: the TF-IDF scores with the idf weights of
\* its own sentences; with those of other documents np.ones (the except
\* branch) or scores under the other weights
ScoringOf(idf, stale) == IF idf = Some(SentencesKey) THEN "tfidf" ELSE stale

\* the similarity and the scoring of request r once the matrix is transformed
\* with the weights the vectorizer holds
Transformed(r, idf, stale_similarity, stale_scoring) ==
    IF r.fn = "generate_summary"
    THEN [r EXCEPT !.step = "done", !.scoring = ScoringOf(idf, stale_scoring)]
    ELSE [r EXCEPT !.step = "done",
                   !.similarity = SimilarityOf(RequestText, r.job, idf, stale_similarity)]

\* request i: the transform, with the weights the vectorizer holds now, and
\* the return
TransformStep(i) ==
    /\ pc = "serving"
    /\ requests[i].step = "fitted"
    /\ \E k \in 0..SimGrid, sc \in {"ones", "stale"} :
        requests' = [requests EXCEPT
                        ![i] = Transformed(requests[i], vectorizer, Rat(k, SimGrid), sc)]
    /\ pc' = IF \A j \in DOMAIN requests : j # i => requests[j].step = "done"
             THEN "returned" ELSE "serving"
    /\ UNCHANGED <<fn, interview, negotiation, candidate, application, history,
                   risk_score, risk, level, locals, result, raised, weights, first>>
    /\ UNCHANGED <<events, hvars, gvars>>
    /\ UNCHANGED <<svars, ranker_weights, vectorizer, resume_text, job_description,
                   features, scores, fit_score, max_length, sentences, summary,
                   response, vectorizer_before>>

NextConcurrent ==
    \/ Receive
    \/ \E i \in {1, 2} : FitStep(i)
    \/ \E i \in {1, 2} : TransformStep(i)
    \/ Return

SpecConcurrent == Init /\ [][NextConcurrent]_vars

----------------------------------------------------------------------------
(* Properties of analyze_risk and of the calculators *)

AnalysisReturned == pc = "returned" /\ fn = "analyze_risk"
CalculatorReturned(f) == pc = "returned" /\ fn = f

\* the band of a reported score r
BandOf(r) ==
    IF RLt(r, Rat(3, 10)) THEN "low"
    ELSE IF RLt(r, Rat(7, 10)) THEN "medium"
    ELSE "high"

\* the total of the analysis l sits on no rounding tie and on no cut point:
\* its rounding and its level do not depend on the representation error
ExactTotal(l) == ~IsTie(l.total_risk.val, 2) /\ l.total_risk.val \notin RiskCuts

\* C1: in every result analyze_risk returns, risk_level is the band of the
\* reported no_show_risk: below 0.3 'low', from 0.3 and below 0.7 'medium',
\* from 0.7 'high'.  (Stated for the analyses whose total sits on no tie and
\* on no cut point, so that a violation owes nothing to the representation
\* error of floats.)
C1_LevelAgreesWithReportedRisk ==
    (AnalysisReturned /\ ExactTotal(locals)) =>
        result.risk_level = BandOf(result.no_show_risk)

\* C2: the no_show_risk analyze_risk returns lies in [0.0, 1.0], for every
\* interview, negotiation outcome, profile and history.
C2_RiskInUnitInterval ==
    AnalysisReturned =>
        /\ RLe(Zero, result.no_show_risk)
        /\ RLe(result.no_show_risk, One)

\* C2 witness: the riskiest analysis (slowest response, most rounds, empty
\* profile, a history of no-shows only) has returned.
C2_Witness ==
    /\ AnalysisReturned
    /\ history.outcome = "rows" /\ Len(history.rows) > 0
    /\ \A i \in 1..Len(history.rows) : history.rows[i] = "no_show"
    /\ negotiation.outcome = "row" /\ negotiation.round >= 3
    /\ result.no_show_risk = Rat(92, 100)

\* C3: _categorize_risk maps every score in [0,1] to exactly one level:
\* score < 0.3 'low', 0.3 <= score < 0.7 'medium', score >= 0.7 'high'.
C3_CategorizeBands ==
    (CalculatorReturned("_categorize_risk") /\ risk_score.err = 0) =>
        LET v == risk_score.val IN
        /\ RLt(v, Rat(3, 10)) => level = "low"
        /\ (RLe(Rat(3, 10), v) /\ RLt(v, Rat(7, 10))) => level = "medium"
        /\ RLe(Rat(7, 10), v) => level = "high"

\* C3 witness: the upper cut point 0.7 itself has been categorized 'high'.
C3_Witness ==
    /\ CalculatorReturned("_categorize_risk")
    /\ risk_score = Exact(Rat(7, 10))
    /\ level = "high"

\* the weighted sum of the four calculators' values on the rows the call read
WeightedSum ==
    RAdd(RAdd(RMul(Rat(30, 100), _calculate_response_time_risk(interview)),
              RMul(Rat(25, 100), _calculate_negotiation_risk(negotiation))),
         RAdd(RMul(Rat(20, 100), _calculate_profile_completeness_risk(candidate, application)),
              RMul(Rat(25, 100), _calculate_historical_risk(history))))

\* q is a multiple of 0.01 nearest to x
NearestHundredth(q, x) ==
    /\ (q[1] * 100) % q[2] = 0
    /\ RLe(RSub(q, x), Rat(1, 200))
    /\ RLe(RSub(x, q), Rat(1, 200))

\* C4: no_show_risk is 0.30*response + 0.25*negotiation + 0.20*profile +
\* 0.25*historical rounded to 2 decimals, the sub-risks being what the four
\* calculators return for the same rows.
C4_WeightedSumRounded ==
    AnalysisReturned => NearestHundredth(result.no_show_risk, WeightedSum)

\* C4 witness: an analysis whose weighted sum is no multiple of 0.01 has
\* returned, so the rounding changed the value.
C4_Witness ==
    /\ AnalysisReturned
    /\ result.no_show_risk # WeightedSum
    /\ result.no_show_risk = Rat(30, 100)

\* minutes between created_at and updated_at of the interview row read
ElapsedMinutes == interview.updated_at[1] - interview.created_at[1]

\* C6: for a status other than 'invitation_sent' with both time stamps
\* present, _calculate_response_time_risk is the step function of the elapsed
\* hours: < 6h 0.1, 6h <= h < 24h 0.3, 24h <= h < 48h 0.7, h >= 48h 0.9; with
\* a time stamp missing it returns 0.5.
C6_ResponseTimeBands ==
    (CalculatorReturned("_calculate_response_time_risk")
        /\ interview.status # "invitation_sent") =>
        IF interview.created_at = Null \/ interview.updated_at = Null
        THEN risk = Rat(5, 10)
        ELSE /\ ElapsedMinutes < 6 * 60 => risk = Rat(1, 10)
             /\ (6 * 60 <= ElapsedMinutes /\ ElapsedMinutes < 24 * 60) => risk = Rat(3, 10)
             /\ (24 * 60 <= ElapsedMinutes /\ ElapsedMinutes < 48 * 60) => risk = Rat(7, 10)
             /\ 48 * 60 <= ElapsedMinutes => risk = Rat(9, 10)

\* C6 witness: an answered interview updated exactly 24 hours after its
\* creation has been rated 0.7.
C6_Witness ==
    /\ CalculatorReturned("_calculate_response_time_risk")
    /\ interview.status = "confirmed"
    /\ interview.created_at # Null /\ interview.updated_at # Null
    /\ ElapsedMinutes = 24 * 60
    /\ risk = Rat(7, 10)

\* C7: for an interview with status 'invitation_sent', whatever its time
\* stamps, the response-time risk is 0.5 and the response_time_hours that
\* analyze_risk reports is 0.0.
C7_InvitationSent ==
    /\ (CalculatorReturned("_calculate_response_time_risk")
            /\ interview.status = "invitation_sent") => risk = Rat(5, 10)
    /\ (AnalysisReturned /\ interview.status = "invitation_sent") =>
            /\ locals.response_risk = Rat(5, 10)
            /\ result.factors.response_time_hours = Zero

\* C7 witness: an analysis of an unanswered invitation whose row was updated
\* long after its creation has returned.
C7_Witness ==
    /\ AnalysisReturned
    /\ interview.status = "invitation_sent"
    /\ interview.created_at # Null /\ interview.updated_at # Null
    /\ ElapsedMinutes >= 48 * 60

\* C8: _calculate_negotiation_risk returns 0.1 without a negotiation session,
\* else 0.2, 0.5, 0.8 for a latest round of 1, 2, 3 or more; when the lookup
\* raises it returns 0.1 and analyze_risk still returns a result.
C8_NegotiationBands ==
    /\ CalculatorReturned("_calculate_negotiation_risk") =>
        /\ negotiation.outcome \in {"raises", "none"} => risk = Rat(1, 10)
        /\ (negotiation.outcome = "row" /\ negotiation.round = 1) => risk = Rat(2, 10)
        /\ (negotiation.outcome = "row" /\ negotiation.round = 2) => risk = Rat(5, 10)
        /\ (negotiation.outcome = "row" /\ negotiation.round >= 3) => risk = Rat(8, 10)
    /\ (fn = "analyze_risk" /\ negotiation.outcome = "raises") =>
        /\ pc = "returned"
        /\ locals.negotiation_risk = Rat(1, 10)
        /\ result.risk_level \in {"low", "medium", "high"}

\* C8 witness: an analysis whose negotiation lookup raised has returned.
C8_Witness ==
    /\ AnalysisReturned
    /\ negotiation.outcome = "raises"
    /\ result.factors.negotiation_rounds = 0

\* the number of the six profile fields that count as filled
FilledFields ==
    Cardinality({f \in {"name", "email", "phone"} :
                    candidate[f] # Null /\ candidate[f][1] >= 1})
  + Cardinality({f \in {"cover_letter", "address", "resume_url"} :
                    application[f] # Null /\ application[f][1] >= 11})

\* C9: _calculate_profile_completeness_risk returns 1 - filled/6, filled
\* counting the non-empty name, email, phone and the cover_letter, address,
\* resume_url longer than 10 characters (exactly 10 does not count).
C9_ProfileCompleteness ==
    CalculatorReturned("_calculate_profile_completeness_risk") =>
        /\ risk = Rat(6 - FilledFields, 6)
        /\ FilledFields = 6 => risk = Zero
        /\ FilledFields = 0 => risk = One

\* C9 witness: a profile complete but for a cover letter of exactly 10
\* characters has been rated 1/6.
C9_Witness ==
    /\ CalculatorReturned("_calculate_profile_completeness_risk")
    /\ application.cover_letter = Some(10)
    /\ FilledFields = 5
    /\ risk = Rat(1, 6)

HistoryCount(s) == Cardinality({i \in 1..Len(history.rows) : history.rows[i] = s})

\* C10: _calculate_historical_risk returns 0.5 for an empty history and when
\* the lookup raises; for n interviews with a no_shows and c completed it
\* returns min(a/n + 0.5*(1 - c/n), 1.0), which lies in [0,1] (all completed
\* 0.0, all no_show 1.0, all cancelled 0.5).
C10_HistoricalRisk ==
    CalculatorReturned("_calculate_historical_risk") =>
        LET n == Len(history.rows)
            a == HistoryCount("no_show")
            c == HistoryCount("completed")
            twice == 2 * a + (n - c)      \* 2n times a/n + 0.5*(1 - c/n)
        IN IF history.outcome = "raises" \/ n = 0 THEN risk = Rat(1, 2)
           ELSE /\ risk = Rat(IF twice < 2 * n THEN twice ELSE 2 * n, 2 * n)
                /\ RLe(Zero, risk) /\ RLe(risk, One)
                /\ c = n => risk = Zero
                /\ a = n => risk = One
                /\ HistoryCount("cancelled") = n => risk = Rat(1, 2)

\* C10 witness: a mixed history whose no-show rate and half of whose missing
\* completions add up to more than 1 (no_shows and a cancellation) has been
\* rated, and the clamp gave 1.0.
C10_Witness ==
    /\ CalculatorReturned("_calculate_historical_risk")
    /\ history.outcome = "rows"
    /\ HistoryCount("no_show") > 0 /\ HistoryCount("cancelled") > 0
    /\ 2 * HistoryCount("no_show") + (Len(history.rows) - HistoryCount("completed"))
            > 2 * Len(history.rows)
    /\ risk = One

Factors == {"response_risk", "negotiation_risk", "profile_risk", "historical_risk"}

\* the second analysis had one sub-risk strictly greater than the first and
\* the three others equal
OneFactorWorse ==
    /\ AnalysisReturned /\ first.called
    /\ \E f \in Factors :
        /\ RLt(first.locals[f], locals[f])
        /\ \A g \in Factors \ {f} : first.locals[g] = locals[g]

\* C5 as claimed: of two analyses whose sub-risks are equal for three factors
\* and strictly greater in the second for the fourth, the second reports a
\* strictly greater no_show_risk.  (Stated for the analyses whose totals sit
\* on no tie and on no cut point, so that a violation owes nothing to the
\* representation error of floats.)
C5_StrictlyMonotone ==
    (OneFactorWorse /\ ExactTotal(first.locals) /\ ExactTotal(locals)) =>
        RLt(first.result.no_show_risk, result.no_show_risk)

\* C5 amended: the second reports a no_show_risk that is not smaller, and a
\* strictly greater one when the two weighted sums differ by more than 0.01.
C5_Monotone ==
    OneFactorWorse =>
        /\ RLe(first.result.no_show_risk, result.no_show_risk)
        /\ RLt(Rat(1, 100), RSub(locals.total_risk.val, first.locals.total_risk.val))
            => RLt(first.result.no_show_risk, result.no_show_risk)

\* C5 witness: two analyses that differ in one sub-risk only have reported
\* the same no_show_risk.
C5_Witness ==
    /\ OneFactorWorse
    /\ ExactTotal(first.locals) /\ ExactTotal(locals)
    /\ result.no_show_risk = first.result.no_show_risk

----------------------------------------------------------------------------
(* Properties of the history query *)

\* the candidate's interviews with a terminal status, the analysed one apart
OtherTerminalInterviews ==
    {i \in DOMAIN interviews :
        /\ interviews[i].candidate_id = candidate_id
        /\ i # interview_id
        /\ interviews[i].status \in TerminalStatuses}

\* C11: the interviews analyze_risk(interview_id, candidate_id) uses for the
\* historical risk never include the interview interview_id and are all the
\* other interviews of the candidate with status completed, no_show or
\* cancelled, whatever the creation order.  (Stated for calls whose
\* interview_id names an interview of candidate_id.)
C11_HistoryExcludesCurrent ==
    (/\ AnalysisReturned
     /\ interview_id \in DOMAIN interviews
     /\ interviews[interview_id].candidate_id = candidate_id) =>
        past_interviews = OtherTerminalInterviews

----------------------------------------------------------------------------
(* Properties of the ranker *)

RankerReturned(f) == pc = "returned" /\ fn = f

\* a call of _compute_fit_score has returned
FitScoreReturned ==
    pc = "returned" /\ fn \in {"_compute_fit_score", "extract_then_score"}

\* min(n/d, 1)
Saturated(n, d) == IF n < d THEN Rat(n, d) ELSE One

\* C12: for every features record and similarity sim, _compute_fit_score
\* returns 100 * (0.40*sim + 0.25*min(years/10, 1) + 0.20*min(projects/15, 1)
\* + 0.10*min(|skills|/10, 1) + 0.05*(education/5)).
C12_FitScoreFormula ==
    (FitScoreReturned /\ features # Null) =>
        fit_score =
            RMul(Rat(100, 1),
                 RAdd(RAdd(RMul(Rat(40, 100), scores.tfidf_score),
                           RMul(Rat(25, 100), Saturated(features.years_experience, 10))),
                      RAdd(RAdd(RMul(Rat(20, 100), Saturated(features.project_count, 15)),
                                RMul(Rat(10, 100), Saturated(features.skills, 10))),
                           RMul(Rat(5, 100), Rat(features.education_score, 5)))))

\* C12 witness: a record beyond the three saturation points has been scored.
C12_Witness ==
    /\ RankerReturned("_compute_fit_score") /\ features # Null
    /\ features.years_experience > 10 /\ features.project_count > 15
    /\ features.skills > 10 /\ features.education_score = 5
    /\ scores.tfidf_score = One
    /\ fit_score = Rat(100, 1)

\* the features are those _extract_features gives for the resume text
ExtractedFeatures ==
    /\ features.years_experience = MaxOf(resume_text.years)
    /\ features.project_count <= 20 /\ features.project_count <= resume_text.keywords
    /\ features.education_score \in 0..5

\* C13: with features produced by _extract_features on the resume text and a
\* similarity in [0,1], the fit score of _compute_fit_score and of
\* process_application lies in [0, 100].
C13_FitScoreRange ==
    /\ (RankerReturned("extract_then_score")
            /\ RLe(Zero, scores.tfidf_score) /\ RLe(scores.tfidf_score, One)) =>
        /\ RLe(Zero, fit_score)
        /\ RLe(fit_score, Rat(100, 1))
    /\ RankerReturned("process_application") =>
        /\ RLe(Zero, response.fit_score)
        /\ RLe(response.fit_score, Rat(100, 1))

\* C13 witness: a resume text that saturates every sub-score, of similarity
\* 1 with the job description, has been scored 100.
C13_Witness ==
    /\ RankerReturned("extract_then_score")
    /\ ExtractedFeatures
    /\ resume_text.kind = "resume" /\ resume_text.keywords > 20
    /\ scores.tfidf_score = One
    /\ fit_score = Rat(100, 1)

InUnit(x) == RLe(Zero, x) /\ RLe(x, One)

\* C14: in _compute_fit_score each of the five sub-scores is within [0,1]
\* when it is multiplied by its weight, for every features record passed
\* in, out-of-range values included.
C14_SubScoresClamped ==
    (RankerReturned("_compute_fit_score") /\ features # Null) =>
        /\ InUnit(scores.tfidf_score)
        /\ InUnit(scores.experience_score)
        /\ InUnit(scores.project_score)
        /\ InUnit(scores.skills_score)
        /\ InUnit(scores.education_score)

\* C15: for every malformed or degenerate resume text, _extract_features
\* then _compute_fit_score yield a fit score <= 10.0.
C15_DegenerateScoresLow ==
    (RankerReturned("extract_then_score") /\ resume_text.kind \in DegenerateKinds) =>
        RLe(fit_score, Rat(10, 1))

\* the failure record: no score, no summary, no features, an error message
IsFailureRecord(r) ==
    /\ ~r.success
    /\ r.fit_score = Zero
    /\ r.summary.len = 0
    /\ r.extracted_features.skills = 0
    /\ r.extracted_features.years_experience = 0
    /\ r.extracted_features.project_count = 0
    /\ r.extracted_features.education_score = 0
    /\ r.error # ""

\* C16: process_application never raises; when the downloaded text is empty
\* or its stripped length is below 50, or the download fails, it returns the
\* failure record; a record with success = true comes from a text of
\* stripped length >= 50.
C16_ProcessNeverRaises ==
    fn = "process_application" =>
        /\ pc = "returned"
        /\ (resume_text.chars = 0 \/ resume_text.stripped < 50) => IsFailureRecord(response)
        /\ response.success => resume_text.stripped >= 50
        /\ ~response.success => IsFailureRecord(response)

\* C16 witness: a text of 55 characters, 45 without the white space around
\* it, has been answered with the failure record.
C16_Witness ==
    /\ RankerReturned("process_application")
    /\ resume_text.chars >= 50 /\ resume_text.stripped < 50 /\ resume_text.stripped > 0
    /\ IsFailureRecord(response)

\* C17: the string generate_summary returns is at most max_length long, on
\* every path.  (Stated for max_length = 200, what process_application
\* passes.)
C17_SummaryWithinMaxLength ==
    (pc = "returned" /\ fn \in {"generate_summary", "process_application"}
        /\ max_length = SummaryMaxLength) =>
        summary.len <= max_length

\* what request r returns when it is served alone
Alone(r) == Transformed(r, Fit(Null, DocsOf(r)), Zero, "ones")

\* C18: whatever the interleaving of two invocations on the shared ranker,
\* each returns what it returns when run alone.
C18_NoInterference ==
    (pc = "returned" /\ fn = "concurrent") =>
        \A i \in DOMAIN requests : requests[i] = Alone(requests[i])

\* C19: after any sequence of calls on one ranker, _compute_fit_score
\* returns what a freshly constructed ranker returns for the same arguments.
C19_FitScoreIgnoresEarlierFits ==
    FitScoreReturned =>
        fit_score = _compute_fit_score(Null, resume_text, job_description, features,
                                       RankerInitWeights).fit_score

\* C19 witness: a vectorizer fitted on other documents by an earlier call
\* has served a _compute_fit_score with a positive similarity.
C19_Witness ==
    /\ RankerReturned("_compute_fit_score")
    /\ vectorizer_before # Null
    /\ vectorizer_before # Some(DocumentsKey(job_description))
    /\ resume_text.tokens /\ job_description.overlap > 0
    /\ scores.tfidf_score = Rat(job_description.overlap, SimGrid)

\* C20: the fit-score weights and the risk weights each sum to 1.0 and no
\* operation of the ranker or of the analyzer, succeeding or failing, changes
\* them.
C20_WeightsConstant ==
    /\ weights = [response_time |-> Rat(30, 100), negotiation_complexity |-> Rat(25, 100),
                  profile_completeness |-> Rat(20, 100), historical_pattern |-> Rat(25, 100)]
    /\ ranker_weights = [tfidf_similarity |-> Rat(40, 100), experience |-> Rat(25, 100),
                         projects |-> Rat(20, 100), skills |-> Rat(10, 100),
                         education |-> Rat(5, 100)]
    /\ RAdd(RAdd(weights.response_time, weights.negotiation_complexity),
            RAdd(weights.profile_completeness, weights.historical_pattern)) = One
    /\ RAdd(RAdd(RAdd(ranker_weights.tfidf_similarity, ranker_weights.experience),
                 RAdd(ranker_weights.projects, ranker_weights.skills)),
            ranker_weights.education) = One

\* C20 witness: process_application has failed after other calls fitted the
\* vectorizer.
C20_Witness ==
    /\ RankerReturned("process_application")
    /\ ~response.success
    /\ vectorizer # Null

----------------------------------------------------------------------------
(* Properties of the analyze-risk endpoint *)

EndpointReturned == pc = "returned" /\ fn = "analyze_risk_route"

\* the body is a JSON object with both fields
CompleteBody == request_body.json = "object" /\ ~MissingFields(request_body)

\* a row the call looked up was not in the store
NotFoundInStore ==
    \/ "interview" \in Range(events) /\ ~interview.found
    \/ "candidate" \in Range(events) /\ ~candidate.found
    \/ "application" \in Range(events) /\ ~application.found

\* the analyzer returned a result: it got through its two close calls
AnalyzerReturned == "conn.close" \in Range(events)

----------------------------------------------------------------------------
(* Properties of the reported negotiation rounds *)

\* C22: the negotiation_rounds analyze_risk reports is 0 when the interview
\* has no negotiation session or the lookup failed, 1 when the latest
\* session's round is 1, 2 when it is 2, and 3 when it is 3 or more.
C22_NegotiationRoundsReported ==
    AnalysisReturned =>
        LET n == result.factors.negotiation_rounds IN
        /\ negotiation.outcome \in {"none", "raises"} => n = 0
        /\ (negotiation.outcome = "row" /\ negotiation.round = 1) => n = 1
        /\ (negotiation.outcome = "row" /\ negotiation.round = 2) => n = 2
        /\ (negotiation.outcome = "row" /\ negotiation.round >= 3) => n = 3

\* C22 witness: an analysis whose latest session is beyond its third round
\* has reported 3 rounds.
C22_Witness ==
    /\ AnalysisReturned
    /\ negotiation.outcome = "row" /\ negotiation.round > 3
    /\ locals.negotiation_risk = Rat(8, 10)
    /\ result.factors.negotiation_rounds = 3

----------------------------------------------------------------------------
(* Properties of the database connection of analyze_risk *)

\* analyze_risk has returned a result, to a direct caller or to the endpoint
AnalyzerGaveResult ==
    /\ pc = "returned"
    /\ \/ fn = "analyze_risk"
       \/ fn = "analyze_risk_route" /\ http_response.status = 200

\* how many times the call did e on its connection
CountEvent(e) == Cardinality({i \in DOMAIN events : events[i] = e})

StoreReads == {"interview", "candidate", "application", "negotiation", "history"}
Closes == {"cursor.close", "conn.close"}

\* C23: whenever analyze_risk returns a result, the cursor and the
\* connection it opened have each been closed exactly once, after the rows
\* of all four sub-risks were read from the store.
C23_ClosedOnceAfterReads ==
    AnalyzerGaveResult =>
        /\ CountEvent("connect") = 1 /\ CountEvent("cursor") = 1
        /\ CountEvent("cursor.close") = 1 /\ CountEvent("conn.close") = 1
        /\ \A r \in StoreReads : CountEvent(r) = 1
        /\ \A i, j \in DOMAIN events :
            (events[i] \in StoreReads /\ events[j] \in Closes) => i < j

\* C23 witness: a request to the endpoint whose candidate has a history has
\* been answered with a result.
C23_Witness ==
    /\ AnalyzerGaveResult /\ fn = "analyze_risk_route"
    /\ history.outcome = "rows" /\ Len(history.rows) > 0
    /\ "conn.close" \in Range(events)

\* C28: every call of analyze_risk that obtains a connection has closed its
\* cursor and its connection when it ends, the calls that raise included.
C28_ConnectionAlwaysClosed ==
    (pc \in {"returned", "raised"} /\ "connect" \in Range(events)) =>
        CountEvent("cursor.close") = 1 /\ CountEvent("conn.close") = 1

----------------------------------------------------------------------------
(* Properties of generate_summary and of the sentence selection *)

SummaryReturned == pc = "returned" /\ fn \in {"generate_summary", "process_application"}

\* C24: for every resume text of at least 100 characters,
\* generate_summary(text, max_length=200) returns a non-empty string,
\* whatever the number and the lengths of its sentences.  (The cleaned text,
\* no longer than the text, has at least 100 characters.)
C24_SummaryNonEmpty ==
    (SummaryReturned /\ max_length = SummaryMaxLength /\ JoinLen(sentences) >= 100) =>
        summary.len > 0

\* the greedy rule, position by position: what is selected, the accumulated
\* length and whether visiting has stopped after the k best-scored sentences
RECURSIVE GreedyAfter(_)
GreedyAfter(k) ==
    IF k = 0 THEN [selected |-> {}, length |-> 0, stopped |-> FALSE]
    ELSE LET before == GreedyAfter(k - 1)
             idx == ranked_indices[k]
             fits == before.length + WordsLen(sentences[idx]) + 1 <= max_length
             sel == IF fits THEN before.selected \cup {idx} ELSE before.selected
             len == IF fits THEN before.length + WordsLen(sentences[idx]) + 1
                    ELSE before.length
         IN IF before.stopped THEN before
            ELSE [selected |-> sel, length |-> len,
                  stopped |-> Cardinality(sel) >= 2 /\ 5 * len > 4 * max_length]

\* the j-th smallest element of a set of indices
NthSmallest(S, j) == CHOOSE x \in S : Cardinality({y \in S : y < x}) = j - 1

\* C25: _select_top_sentences returns, in original document order, exactly
\* the sentences chosen by the greedy rule: indices visited by score
\* descending; a sentence is added iff accumulated length + its length + 1
\* <= max_length (one that does not fit is skipped, later ones are still
\* tried); visiting stops once at least 2 sentences are selected and the
\* accumulated length exceeds 80% of max_length.
C25_GreedySelection ==
    RankerReturned("_select_top_sentences") =>
        LET chosen == GreedyAfter(Len(ranked_indices)).selected IN
        /\ Len(selected_sentences) = Cardinality(chosen)
        /\ \A j \in 1..Len(selected_sentences) :
            selected_sentences[j] = sentences[NthSmallest(chosen, j)]

\* C25 witness: the best-scored sentence did not fit and was skipped, the
\* two lower-scored ones were still tried, taken against document order, and
\* returned in document order.
C25_Witness ==
    /\ RankerReturned("_select_top_sentences")
    /\ max_length = 100
    /\ sentences = <<(<<45>>), (<<110>>), (<<40>>)>>
    /\ ranked_indices = <<2, 3, 1>>
    /\ selected_sentences = <<(<<45>>), (<<40>>)>>

\* C26: generate_summary never raises, for any text and max_length: it
\* returns the literal "Resume content too short to summarize." whenever the
\* normalized text is shorter than 50 characters and the literal "Error
\* generating resume summary." whenever a step of its try block fails; a
\* failure of the TF-IDF scoring is caught in _score_sentences and the
\* summary is made from uniform scores.
C26_SummaryNeverRaises ==
    fn = "generate_summary" =>
        /\ pc = "returned"
        /\ JoinLen(sentences) < 50 => summary = Summary("too_short", 38)
        /\ tokenizing = "raises" => summary = Summary("error", 32)
        /\ scoring = "ones" => summary.kind \in {"selected", "truncated"}
        /\ summary.kind \in {"too_short", "error", "unable", "direct", "selected", "truncated"}

\* C26 witness: a text long enough on which a step of the try block raised
\* has been answered with the error literal.
C26_Witness ==
    /\ RankerReturned("generate_summary")
    /\ JoinLen(sentences) >= 50 /\ Len(sentences) > 2
    /\ tokenizing = "raises"
    /\ summary = Summary("error", ErrorMessageLen)

(***************************************************************************)
(* Properties of the education score *)

SelectionMade ==
    \/ RankerReturned("_select_top_sentences")
    \/ SummaryReturned /\ scoring # ""

\* C29 as stated: for every list of sentences, scores and max_length, the
\* space-joined output of _select_top_sentences is at most max_length - 1
\* long, so that generate_summary's final truncation (cut at the last space,
\* append '...') is never taken where three or more sentences are scored.
C29_JoinBelowMaxLength ==
    SelectionMade =>
        /\ JoinLen(selected_sentences) <= max_length - 1
        /\ summary.kind # "truncated"

\* C29 amended: the same for every max_length of 1 or more.
C29_JoinBelowPositiveMaxLength ==
    (SelectionMade /\ max_length >= 1) =>
        /\ JoinLen(selected_sentences) <= max_length - 1
        /\ summary.kind # "truncated"

\* C29 witness: three sentences have been selected whose joined length is
\* exactly max_length - 1.
C29_Witness ==
    /\ RankerReturned("_select_top_sentences")
    /\ max_length = 100
    /\ Len(selected_sentences) = 3
    /\ JoinLen(selected_sentences) = max_length - 1

(***************************************************************************)
(* Properties of the negotiation risk outside the rounds 1, 2, 3 *)

\* C30: the negotiation risk does not decrease with the stored round, over
\* all integers: a latest session whose round is 0 or negative yields a
\* negotiation risk of at most 0.2, that of round 1, and analyze_risk then
\* reports a negotiation_rounds of at most 1.
C30_NegotiationRiskMonotone ==
    /\ (CalculatorReturned("_calculate_negotiation_risk")
            /\ negotiation.outcome = "row" /\ negotiation.round <= 0) =>
        RLe(risk, Rat(2, 10))
    /\ (AnalysisReturned /\ negotiation.outcome = "row" /\ negotiation.round <= 0) =>
        /\ RLe(locals.negotiation_risk, Rat(2, 10))
        /\ result.factors.negotiation_rounds <= 1

====
